---- MODULE Spec2Model ----
(***************************************************************************)
(* Aureus: the spot price oracle of backend/internal/metals/spotprices.go. *)
(*                                                                         *)
(* Prices are float64 dollars in the source; they are integers (cents)     *)
(* here.  The clock counts minutes.  The two package-level variables       *)
(* cachedPrices and lastFetchTime are shared by every request goroutine    *)
(* without a lock; a step of a caller holds at most one write to them.     *)
(***************************************************************************)
EXTENDS Integers, Sequences, FiniteSets, TLC

\* ---------------------------------------------------------------- bounds
MaxCalls == 2
MaxOverrides == 1

\* ------------------------------------------------------ program constants
cacheDuration == 15
FallbackGold == 265000
FallbackSilver == 3050
FallbackPlatinum == 95000
FallbackPalladium == 95000
FallbackCopper == 552
FallbackNickel == 696

None == [nil |-> TRUE]
NoErr == "nil"
\* time.Time{} : the zero instant, older than anything the clock shows
ZeroTime == 0 - (2 * cacheDuration)

\* two request goroutines: enough for every interleaving of two calls on the
\* two shared variables
Callers == {"a", "b"}

\* the clock readings at which a step can be taken; time jumps from one to
\* any later one, so a cache can be 0, 1, 14 or 15 minutes old when it is tested
Instants == {0, cacheDuration - 1, cacheDuration}

\* ------------------------------------------------------------ feed inputs
\* what an HTTP GET of a feed can produce: a transport error, an unreadable
\* body, a body that is not the expected JSON, or a decoded body; status is
\* the HTTP status code that came with a body
HttpStatuses == {200, 500}
PrimaryGold == {0, 410000}
PrimarySilver == {0, 4800}
SecondaryGold == {0, 420000}
SecondarySilver == {0, 4900}
SecondaryOthers == {0, 97000}
ManualInputs == {<<11, 12, 13, 14>>}

PrimaryResponses ==
  [kind : {"neterr", "readerr", "badjson"}, status : {200}, items : {<<>>}]
  \cup [kind : {"json"}, status : HttpStatuses,
        items : {<<>>} \cup {<<[xauPrice |-> g, xagPrice |-> s]>> :
                              g \in PrimaryGold, s \in PrimarySilver}]

\* the secondary body is a list of {metal, price}; a metal that is absent
\* leaves its field at the zero value, so a body is given by its six prices
SecondaryResponses ==
  [kind : {"neterr", "readerr", "badjson"}, status : {200},
   gold : {0}, silver : {0}, rest : {0}]
  \cup [kind : {"json"}, status : HttpStatuses,
        gold : SecondaryGold, silver : SecondarySilver, rest : SecondaryOthers]

\* ------------------------------------------------------------- snapshots
\* SpotPrices, plus two provenance fields (src, http) that the program does
\* not have: which constructor built the value and under which HTTP status
\* UpdatedAt is written by every constructor and read by nothing in the
\* package (it only travels to the JSON reply), so it is not carried here.
SpotPricesRec(g, s, pt, pd, cu, ni, src, http) ==
  [Gold |-> g, Silver |-> s, Platinum |-> pt, Palladium |-> pd,
   Copper |-> cu, Nickel |-> ni, src |-> src, http |-> http]

\* a static snapshot that leaves the base metals out
StaticPricesNoBase ==
  SpotPricesRec(FallbackGold, FallbackSilver, FallbackPlatinum,
                FallbackPalladium, 0, 0, "static", 0)

\* lines 48-56: the static fallback snapshot
StaticPrices ==
  SpotPricesRec(FallbackGold, FallbackSilver, FallbackPlatinum,
                FallbackPalladium, FallbackCopper, FallbackNickel,
                "static", 0)

\* an override that stores platinum and palladium the wrong way round
ManualPricesSwapped(gold, silver, platinum, palladium) ==
  SpotPricesRec(gold, silver, palladium, platinum,
                FallbackCopper, FallbackNickel, "manual", 0)

\* lines 201-209: the snapshot UpdateSpotPricesManually builds
ManualPrices(gold, silver, platinum, palladium) ==
  SpotPricesRec(gold, silver, platinum, palladium,
                FallbackCopper, FallbackNickel, "manual", 0)

\* fetchGoldPriceOrg applied to one response of the primary feed
fetchGoldPriceOrg(resp) ==
  IF resp.kind # "json" THEN [prices |-> None, err |-> resp.kind]
  ELSE IF Len(resp.items) = 0
    THEN [prices |-> None, err |-> "no items in goldprice.org response"]
  ELSE IF resp.items[1].xauPrice = 0 \/ resp.items[1].xagPrice = 0
    THEN [prices |-> None, err |-> "invalid price data from goldprice.org"]
  ELSE [prices |-> SpotPricesRec(resp.items[1].xauPrice, resp.items[1].xagPrice,
                                 FallbackPlatinum, FallbackPalladium,
                                 FallbackCopper, FallbackNickel,
                                 "primary", resp.status),
        err |-> NoErr]

\* fetchMetalsLive applied to one response of the secondary feed
fetchMetalsLive(resp) ==
  IF resp.kind # "json" THEN [prices |-> None, err |-> resp.kind]
  ELSE IF resp.gold = 0 \/ resp.silver = 0
    THEN [prices |-> None, err |-> "incomplete price data"]
  ELSE [prices |-> SpotPricesRec(resp.gold, resp.silver, resp.rest, resp.rest,
                                 resp.rest, resp.rest, "secondary",
                                 resp.status),
        err |-> NoErr]

\* the TTL test with the boundary minute counted as fresh
IsFreshInclusive(cp, lft, t) == cp # None /\ t - lft <= cacheDuration

\* line 35: the cache is served when it exists and is younger than the TTL
IsFresh(cp, lft, t) == cp # None /\ t - lft < cacheDuration

\* a chain that asks the secondary feed whatever the primary answered
PrimaryAlwaysFailed(r) == TRUE

\* line 66: fetchRealPrices goes on to the secondary feed iff the primary failed
PrimaryFailed(r) == r.err # NoErr

\* line 40: the fetched value is used iff there is no error and a value
LiveOk(r) == r.err = NoErr /\ r.prices # None

\* a failure branch that hands the fetch error to the caller
FallbackResultErr == [prices |-> None, err |-> "all price sources failed"]

\* lines 47-61: what GetSpotPrices returns when the live fetch failed
FallbackResult == [prices |-> StaticPrices, err |-> NoErr]

\* line 75: fetchRealPrices' own error when the secondary feed failed too
fetchRealPricesTail(r) ==
  IF r.err = NoErr THEN r
  ELSE [prices |-> None, err |-> "all price sources failed"]

\* a constructor that fills the gram weight of every entry
MetalCompositionGrams(Name, MetalType, Weight, Purity, IsBaseMetal, WeightGrams, CopperPercent, NickelPercent) ==
  [Name |-> Name, MetalType |-> MetalType, Weight |-> Weight,
   Purity |-> Purity, IsBaseMetal |-> IsBaseMetal, WeightGrams |-> 50,
   CopperPercent |-> CopperPercent, NickelPercent |-> NickelPercent]

\* ------------------------------------------------------ composition data
\* A coin type is the sequence of its characters, so that the regular
\* expressions of normalizeCoinType can be applied to it position by position.
\* Weight is in 1/100000 troy ounce, Purity in 1/100 percent, WeightGrams in
\* 1/10 gram, CopperPercent and NickelPercent in whole percent: the finest
\* units the literals of the source need. The Description field, which no
\* function reads, is left out.
MetalComposition(Name, MetalType, Weight, Purity, IsBaseMetal, WeightGrams, CopperPercent, NickelPercent) ==
  [Name |-> Name, MetalType |-> MetalType, Weight |-> Weight,
   Purity |-> Purity, IsBaseMetal |-> IsBaseMetal,
   WeightGrams |-> WeightGrams, CopperPercent |-> CopperPercent,
   NickelPercent |-> NickelPercent]

\* MetalComposition{}: the zero value returned with exists = false.
ZeroComposition == MetalComposition("", "", 0, 0, FALSE, 0, 0, 0)

\* The map literal, one record per key in source order.
CommonCompositions ==
  <<
    [key |-> <<"M","o","r","g","a","n"," ","D","o","l","l","a","r">>,
     comp |-> MetalComposition("Morgan Dollar", "silver", 77344, 9000, FALSE, 0, 0, 0)],
    [key |-> <<"P","e","a","c","e"," ","D","o","l","l","a","r">>,
     comp |-> MetalComposition("Peace Dollar", "silver", 77344, 9000, FALSE, 0, 0, 0)],
    [key |-> <<"E","i","s","e","n","h","o","w","e","r"," ","D","o","l","l","a","r">>,
     comp |-> MetalComposition("Eisenhower Dollar", "copper", 0, 0, FALSE, 0, 0, 0)],
    [key |-> <<"W","a","l","k","i","n","g"," ","L","i","b","e","r","t","y"," ","H","a","l","f"," ","D","o","l","l","a","r">>,
     comp |-> MetalComposition("Walking Liberty Half Dollar", "silver", 36169, 9000, FALSE, 0, 0, 0)],
    [key |-> <<"F","r","a","n","k","l","i","n"," ","H","a","l","f"," ","D","o","l","l","a","r">>,
     comp |-> MetalComposition("Franklin Half Dollar", "silver", 36169, 9000, FALSE, 0, 0, 0)],
    [key |-> <<"K","e","n","n","e","d","y"," ","H","a","l","f"," ","D","o","l","l","a","r">>,
     comp |-> MetalComposition("Kennedy Half Dollar (1964)", "silver", 36169, 9000, FALSE, 0, 0, 0)],
    [key |-> <<"W","a","s","h","i","n","g","t","o","n"," ","Q","u","a","r","t","e","r">>,
     comp |-> MetalComposition("Washington Quarter (Pre-1965)", "silver", 18084, 9000, FALSE, 0, 0, 0)],
    [key |-> <<"S","t","a","n","d","i","n","g"," ","L","i","b","e","r","t","y"," ","Q","u","a","r","t","e","r">>,
     comp |-> MetalComposition("Standing Liberty Quarter", "silver", 18084, 9000, FALSE, 0, 0, 0)],
    [key |-> <<"M","e","r","c","u","r","y"," ","D","i","m","e">>,
     comp |-> MetalComposition("Mercury Dime", "silver", 7234, 9000, FALSE, 0, 0, 0)],
    [key |-> <<"R","o","o","s","e","v","e","l","t"," ","D","i","m","e">>,
     comp |-> MetalComposition("Roosevelt Dime (Pre-1965)", "silver", 7234, 9000, FALSE, 0, 0, 0)],
    [key |-> <<"B","a","r","b","e","r"," ","D","i","m","e">>,
     comp |-> MetalComposition("Barber Dime", "silver", 7234, 9000, FALSE, 0, 0, 0)],
    [key |-> <<"A","m","e","r","i","c","a","n"," ","G","o","l","d"," ","E","a","g","l","e"," ","(","1"," ","o","z",")">>,
     comp |-> MetalComposition("American Gold Eagle (1 oz)", "gold", 100000, 9167, FALSE, 0, 0, 0)],
    [key |-> <<"A","m","e","r","i","c","a","n"," ","G","o","l","d"," ","E","a","g","l","e"," ","(","1","/","2"," ","o","z",")">>,
     comp |-> MetalComposition("American Gold Eagle (1/2 oz)", "gold", 50000, 9167, FALSE, 0, 0, 0)],
    [key |-> <<"A","m","e","r","i","c","a","n"," ","G","o","l","d"," ","E","a","g","l","e"," ","(","1","/","4"," ","o","z",")">>,
     comp |-> MetalComposition("American Gold Eagle (1/4 oz)", "gold", 25000, 9167, FALSE, 0, 0, 0)],
    [key |-> <<"A","m","e","r","i","c","a","n"," ","G","o","l","d"," ","E","a","g","l","e"," ","(","1","/","1","0"," ","o","z",")">>,
     comp |-> MetalComposition("American Gold Eagle (1/10 oz)", "gold", 10000, 9167, FALSE, 0, 0, 0)],
    [key |-> <<"$","2","0"," ","L","i","b","e","r","t","y">>,
     comp |-> MetalComposition("$20 Liberty Gold Coin", "gold", 96750, 9000, FALSE, 0, 0, 0)],
    [key |-> <<"$","2","0"," ","S","a","i","n","t"," ","G","a","u","d","e","n","s">>,
     comp |-> MetalComposition("$20 Saint Gaudens", "gold", 96750, 9000, FALSE, 0, 0, 0)],
    [key |-> <<"$","1","0"," ","L","i","b","e","r","t","y">>,
     comp |-> MetalComposition("$10 Liberty Gold Coin", "gold", 48375, 9000, FALSE, 0, 0, 0)],
    [key |-> <<"$","1","0"," ","I","n","d","i","a","n">>,
     comp |-> MetalComposition("$10 Indian Gold Coin", "gold", 48375, 9000, FALSE, 0, 0, 0)],
    [key |-> <<"$","5"," ","L","i","b","e","r","t","y">>,
     comp |-> MetalComposition("$5 Liberty Gold Coin", "gold", 24187, 9000, FALSE, 0, 0, 0)],
    [key |-> <<"$","5"," ","I","n","d","i","a","n">>,
     comp |-> MetalComposition("$5 Indian Gold Coin", "gold", 24187, 9000, FALSE, 0, 0, 0)],
    [key |-> <<"$","2",".","5","0"," ","L","i","b","e","r","t","y">>,
     comp |-> MetalComposition("$2.50 Liberty Gold Coin", "gold", 12094, 9000, FALSE, 0, 0, 0)],
    [key |-> <<"$","2",".","5","0"," ","I","n","d","i","a","n">>,
     comp |-> MetalComposition("$2.50 Indian Gold Coin", "gold", 12094, 9000, FALSE, 0, 0, 0)],
    [key |-> <<"$","1"," ","L","i","b","e","r","t","y">>,
     comp |-> MetalComposition("$1 Liberty Gold Coin", "gold", 4837, 9000, FALSE, 0, 0, 0)],
    [key |-> <<"B","u","f","f","a","l","o"," ","N","i","c","k","e","l">>,
     comp |-> MetalComposition("Buffalo Nickel (1913-1938)", "copper", 0, 0, TRUE, 50, 75, 25)],
    [key |-> <<"J","e","f","f","e","r","s","o","n"," ","N","i","c","k","e","l">>,
     comp |-> MetalComposition("Jefferson Nickel", "copper", 0, 0, TRUE, 50, 75, 25)],
    [key |-> <<"J","e","f","f","e","r","s","o","n"," ","N","i","c","k","e","l"," ","(","W","a","r","t","i","m","e"," ","S","i","l","v","e","r",")">>,
     comp |-> MetalComposition("Jefferson Nickel (1942-1945 Silver)", "silver", 5626, 3500, FALSE, 0, 0, 0)],
    [key |-> <<"L","i","b","e","r","t","y"," ","N","i","c","k","e","l">>,
     comp |-> MetalComposition("Liberty Head Nickel (1883-1913)", "copper", 0, 0, TRUE, 50, 75, 25)],
    [key |-> <<"S","h","i","e","l","d"," ","N","i","c","k","e","l">>,
     comp |-> MetalComposition("Shield Nickel (1866-1883)", "copper", 0, 0, TRUE, 50, 75, 25)],
    [key |-> <<"I","n","d","i","a","n"," ","H","e","a","d"," ","C","e","n","t">>,
     comp |-> MetalComposition("Indian Head Cent", "copper", 0, 0, FALSE, 0, 0, 0)],
    [key |-> <<"L","i","n","c","o","l","n"," ","C","e","n","t">>,
     comp |-> MetalComposition("Lincoln Cent (Pre-1982)", "copper", 0, 0, FALSE, 0, 0, 0)],
    [key |-> <<"W","h","e","a","t"," ","P","e","n","n","y">>,
     comp |-> MetalComposition("Wheat Penny (1909-1958)", "copper", 0, 0, FALSE, 0, 0, 0)],
    [key |-> <<"S","t","e","e","l"," ","P","e","n","n","y">>,
     comp |-> MetalComposition("Steel Penny (1943)", "copper", 0, 0, FALSE, 0, 0, 0)],
    [key |-> <<"T","h","r","e","e"," ","C","e","n","t"," ","S","i","l","v","e","r">>,
     comp |-> MetalComposition("Three Cent Silver (Trime)", "silver", 2419, 7500, FALSE, 0, 0, 0)],
    [key |-> <<"S","e","a","t","e","d"," ","L","i","b","e","r","t","y"," ","H","a","l","f"," ","D","i","m","e">>,
     comp |-> MetalComposition("Seated Liberty Half Dime", "silver", 3617, 9000, FALSE, 0, 0, 0)],
    [key |-> <<"B","u","s","t"," ","H","a","l","f"," ","D","i","m","e">>,
     comp |-> MetalComposition("Bust Half Dime", "silver", 3617, 8924, FALSE, 0, 0, 0)],
    [key |-> <<"B","a","r","b","e","r"," ","Q","u","a","r","t","e","r">>,
     comp |-> MetalComposition("Barber Quarter", "silver", 18084, 9000, FALSE, 0, 0, 0)],
    [key |-> <<"S","e","a","t","e","d"," ","L","i","b","e","r","t","y"," ","Q","u","a","r","t","e","r">>,
     comp |-> MetalComposition("Seated Liberty Quarter", "silver", 18084, 9000, FALSE, 0, 0, 0)],
    [key |-> <<"D","r","a","p","e","d"," ","B","u","s","t"," ","Q","u","a","r","t","e","r">>,
     comp |-> MetalComposition("Draped Bust Quarter", "silver", 19285, 8924, FALSE, 0, 0, 0)],
    [key |-> <<"C","a","p","p","e","d"," ","B","u","s","t"," ","Q","u","a","r","t","e","r">>,
     comp |-> MetalComposition("Capped Bust Quarter", "silver", 19285, 8924, FALSE, 0, 0, 0)],
    [key |-> <<"B","a","r","b","e","r"," ","H","a","l","f"," ","D","o","l","l","a","r">>,
     comp |-> MetalComposition("Barber Half Dollar", "silver", 36169, 9000, FALSE, 0, 0, 0)],
    [key |-> <<"S","e","a","t","e","d"," ","L","i","b","e","r","t","y"," ","H","a","l","f"," ","D","o","l","l","a","r">>,
     comp |-> MetalComposition("Seated Liberty Half Dollar", "silver", 36169, 9000, FALSE, 0, 0, 0)],
    [key |-> <<"C","a","p","p","e","d"," ","B","u","s","t"," ","H","a","l","f"," ","D","o","l","l","a","r">>,
     comp |-> MetalComposition("Capped Bust Half Dollar", "silver", 38570, 8924, FALSE, 0, 0, 0)],
    [key |-> <<"D","r","a","p","e","d"," ","B","u","s","t"," ","H","a","l","f"," ","D","o","l","l","a","r">>,
     comp |-> MetalComposition("Draped Bust Half Dollar", "silver", 38570, 8924, FALSE, 0, 0, 0)],
    [key |-> <<"S","e","a","t","e","d"," ","L","i","b","e","r","t","y"," ","D","o","l","l","a","r">>,
     comp |-> MetalComposition("Seated Liberty Dollar", "silver", 77344, 9000, FALSE, 0, 0, 0)],
    [key |-> <<"T","r","a","d","e"," ","D","o","l","l","a","r">>,
     comp |-> MetalComposition("Trade Dollar", "silver", 78287, 9000, FALSE, 0, 0, 0)],
    [key |-> <<"B","u","s","t"," ","D","o","l","l","a","r">>,
     comp |-> MetalComposition("Bust Dollar", "silver", 77344, 8924, FALSE, 0, 0, 0)],
    [key |-> <<"A","m","e","r","i","c","a","n"," ","S","i","l","v","e","r"," ","E","a","g","l","e">>,
     comp |-> MetalComposition("American Silver Eagle (1 oz)", "silver", 100000, 9990, FALSE, 0, 0, 0)],
    [key |-> <<"C","a","n","a","d","i","a","n"," ","M","a","p","l","e"," ","L","e","a","f"," ","(","G","o","l","d",")">>,
     comp |-> MetalComposition("Canadian Gold Maple Leaf (1 oz)", "gold", 100000, 9999, FALSE, 0, 0, 0)],
    [key |-> <<"C","a","n","a","d","i","a","n"," ","M","a","p","l","e"," ","L","e","a","f"," ","(","S","i","l","v","e","r",")">>,
     comp |-> MetalComposition("Canadian Silver Maple Leaf (1 oz)", "silver", 100000, 9999, FALSE, 0, 0, 0)],
    [key |-> <<"A","m","e","r","i","c","a","n"," ","B","u","f","f","a","l","o"," ","(","G","o","l","d",")">>,
     comp |-> MetalComposition("American Gold Buffalo (1 oz)", "gold", 100000, 9999, FALSE, 0, 0, 0)],
    [key |-> <<"K","r","u","g","e","r","r","a","n","d">>,
     comp |-> MetalComposition("South African Krugerrand (1 oz)", "gold", 100000, 9167, FALSE, 0, 0, 0)],
    [key |-> <<"V","i","e","n","n","a"," ","P","h","i","l","h","a","r","m","o","n","i","c"," ","(","G","o","l","d",")">>,
     comp |-> MetalComposition("Austrian Gold Philharmonic (1 oz)", "gold", 100000, 9999, FALSE, 0, 0, 0)],
    [key |-> <<"B","r","i","t","a","n","n","i","a"," ","(","G","o","l","d",")">>,
     comp |-> MetalComposition("British Gold Britannia (1 oz)", "gold", 100000, 9999, FALSE, 0, 0, 0)],
    [key |-> <<"B","r","i","t","a","n","n","i","a"," ","(","S","i","l","v","e","r",")">>,
     comp |-> MetalComposition("British Silver Britannia (1 oz)", "silver", 100000, 9990, FALSE, 0, 0, 0)]
  >>

\* The rule slice of the source, in declaration order.
YearBasedCompositions ==
  <<
    [CoinType |-> <<"K","e","n","n","e","d","y"," ","H","a","l","f"," ","D","o","l","l","a","r">>,
     YearRanges |-> <<
       [StartYear |-> 1964, EndYear |-> 1964,
        Composition |-> MetalComposition("Kennedy Half Dollar (1964)", "silver", 36169, 9000, FALSE, 0, 0, 0)],
       [StartYear |-> 1965, EndYear |-> 1970,
        Composition |-> MetalComposition("Kennedy Half Dollar (1965-1970)", "silver", 14792, 4000, FALSE, 0, 0, 0)]
     >>,
     DefaultComp |-> MetalComposition("Kennedy Half Dollar (1971+)", "copper", 0, 0, FALSE, 0, 0, 0)],
    [CoinType |-> <<"W","a","s","h","i","n","g","t","o","n"," ","Q","u","a","r","t","e","r">>,
     YearRanges |-> <<
       [StartYear |-> 1932, EndYear |-> 1964,
        Composition |-> MetalComposition("Washington Quarter (1932-1964)", "silver", 18084, 9000, FALSE, 0, 0, 0)]
     >>,
     DefaultComp |-> MetalComposition("Washington Quarter (1965+)", "copper", 0, 0, FALSE, 0, 0, 0)],
    [CoinType |-> <<"R","o","o","s","e","v","e","l","t"," ","D","i","m","e">>,
     YearRanges |-> <<
       [StartYear |-> 1946, EndYear |-> 1964,
        Composition |-> MetalComposition("Roosevelt Dime (1946-1964)", "silver", 7234, 9000, FALSE, 0, 0, 0)]
     >>,
     DefaultComp |-> MetalComposition("Roosevelt Dime (1965+)", "copper", 0, 0, FALSE, 0, 0, 0)],
    [CoinType |-> <<"J","e","f","f","e","r","s","o","n"," ","N","i","c","k","e","l">>,
     YearRanges |-> <<
       [StartYear |-> 1942, EndYear |-> 1945,
        Composition |-> MetalComposition("Jefferson Nickel (1942-1945 Wartime)", "silver", 5626, 3500, FALSE, 0, 0, 0)]
     >>,
     DefaultComp |-> MetalComposition("Jefferson Nickel (Regular)", "copper", 0, 0, TRUE, 50, 75, 25)],
    [CoinType |-> <<"L","i","n","c","o","l","n"," ","C","e","n","t">>,
     YearRanges |-> <<
       [StartYear |-> 1909, EndYear |-> 1942,
        Composition |-> MetalComposition("Lincoln Cent (1909-1942)", "copper", 0, 0, FALSE, 0, 0, 0)],
       [StartYear |-> 1943, EndYear |-> 1943,
        Composition |-> MetalComposition("Lincoln Cent (1943 Steel)", "copper", 0, 0, FALSE, 0, 0, 0)],
       [StartYear |-> 1944, EndYear |-> 1946,
        Composition |-> MetalComposition("Lincoln Cent (1944-1946 Shell Casing)", "copper", 0, 0, FALSE, 0, 0, 0)],
       [StartYear |-> 1947, EndYear |-> 1982,
        Composition |-> MetalComposition("Lincoln Cent (1947-1982)", "copper", 0, 0, FALSE, 0, 0, 0)]
     >>,
     DefaultComp |-> MetalComposition("Lincoln Cent (1982+)", "copper", 0, 0, FALSE, 0, 0, 0)],
    [CoinType |-> <<"E","i","s","e","n","h","o","w","e","r"," ","D","o","l","l","a","r">>,
     YearRanges |-> <<
       [StartYear |-> 1971, EndYear |-> 1976,
        Composition |-> MetalComposition("Eisenhower Dollar (1971-1976 Silver)", "silver", 31625, 4000, FALSE, 0, 0, 0)]
     >>,
     DefaultComp |-> MetalComposition("Eisenhower Dollar (Copper-Nickel Clad)", "copper", 0, 0, FALSE, 0, 0, 0)],
    [CoinType |-> <<"S","u","s","a","n"," ","B","."," ","A","n","t","h","o","n","y"," ","D","o","l","l","a","r">>,
     YearRanges |-> <<>>,
     DefaultComp |-> MetalComposition("Susan B. Anthony Dollar", "copper", 0, 0, FALSE, 0, 0, 0)],
    [CoinType |-> <<"S","a","c","a","g","a","w","e","a"," ","D","o","l","l","a","r">>,
     YearRanges |-> <<>>,
     DefaultComp |-> MetalComposition("Sacagawea Dollar", "copper", 0, 0, FALSE, 0, 0, 0)]
  >>

\* A rule set with two overlapping ranges, registered after the shipped ones:
\* the shipped table has no two ranges of one type that share a year.
SyntheticRule ==
  [CoinType |-> <<"S","y","n","t","h","e","t","i","c"," ","C","o","i","n">>,
   YearRanges |-> <<
     [StartYear |-> 1960, EndYear |-> 1970,
      Composition |-> MetalComposition("Synthetic (1960-1970)", "silver", 36169, 9000, FALSE, 0, 0, 0)],
     [StartYear |-> 1965, EndYear |-> 1975,
      Composition |-> MetalComposition("Synthetic (1965-1975)", "silver", 14792, 4000, FALSE, 0, 0, 0)]
   >>,
   DefaultComp |-> MetalComposition("Synthetic (default)", "copper", 0, 0, FALSE, 0, 0, 0)]

\* The rule slice GetCompositionByYear ranges over.
RegisteredRules == YearBasedCompositions \o <<SyntheticRule>>

\* ------------------------------------------------------- name normalizer
Digit == {"0", "1", "2", "3", "4", "5", "6", "7", "8", "9"}
Upper == {"A", "B", "C", "D", "E", "F", "G", "H", "I", "J", "K", "L", "M",
          "N", "O", "P", "Q", "R", "S", "T", "U", "V", "W", "X", "Y", "Z"}
\* \s of the regexp package: [\t\n\f\r ].
Space == {" ", "\t", "\n", "\f", "\r"}

\* Length of the match of ^\d{4}[-\s]?[A-Z]?\s* at the start of s, 0 when it
\* does not match. Every piece after the four digits is optional and greedy,
\* and nothing follows that could force it to give a character back.
YearPrefixLen(s) ==
  IF Len(s) >= 4 /\ \A i \in 1..4 : s[i] \in Digit
  THEN LET a == IF Len(s) >= 5 /\ s[5] \in ({"-"} \cup Space) THEN 5 ELSE 4
           b == IF Len(s) >= a + 1 /\ s[a + 1] \in Upper THEN a + 1 ELSE a
       IN  CHOOSE n \in b..Len(s) :
             /\ \A i \in (b + 1)..n : s[i] \in Space
             /\ (n = Len(s) \/ s[n + 1] \notin Space)
  ELSE 0

\* \s+[A-Z]{2,4}\d+[A-Z]*$ matched from position i to the end of s.
GradeMatchAt24(s, i) ==
  \E w \in i..Len(s) :
    /\ \A k \in i..w : s[k] \in Space
    /\ \E u \in 2..4 : \E d \in (w + u + 1)..Len(s) :
         /\ \A k \in (w + 1)..(w + u) : s[k] \in Upper
         /\ \A k \in (w + u + 1)..d : s[k] \in Digit
         /\ \A k \in (d + 1)..Len(s) : s[k] \in Upper

\* \s+[A-Z]{2}\d+[A-Z]*$ matched from position i to the end of s: whitespace
\* i..w, two capitals, digits up to d, capitals to the end.
GradeMatchAt(s, i) ==
  \E w \in i..Len(s) :
    /\ \A k \in i..w : s[k] \in Space
    /\ \E d \in (w + 3)..Len(s) :
         /\ s[w + 1] \in Upper /\ s[w + 2] \in Upper
         /\ \A k \in (w + 3)..d : s[k] \in Digit
         /\ \A k \in (d + 1)..Len(s) : s[k] \in Upper

\* Start of the leftmost match of the grade pattern in s, 0 when there is none.
GradeStart(s) ==
  LET M == {i \in 1..Len(s) : GradeMatchAt(s, i)}
  IN  IF M = {} THEN 0 ELSE CHOOSE i \in M : \A j \in M : i <= j

\* ReplaceAllString(s, "") for the two patterns in turn.
normalizeCoinType(coinType) ==
  LET normalized == SubSeq(coinType, YearPrefixLen(coinType) + 1, Len(coinType))
      g == GradeStart(normalized)
  IN  IF g = 0 THEN normalized ELSE SubSeq(normalized, 1, g - 1)

\* --------------------------------------------------------- catalog lookup
\* comp, exists := CommonCompositions[coinType]
HasKey(coinType) ==
  \E i \in DOMAIN CommonCompositions : CommonCompositions[i].key = coinType
CatalogEntry(coinType) ==
  CommonCompositions[CHOOSE i \in DOMAIN CommonCompositions :
                       CommonCompositions[i].key = coinType].comp

NotFound == [comp |-> ZeroComposition, found |-> FALSE]

GetCompositionExactOnly(coinType) ==
  IF HasKey(coinType)
  THEN [comp |-> CatalogEntry(coinType), found |-> TRUE]
  ELSE NotFound

GetComposition(coinType) ==
  IF HasKey(coinType)
  THEN [comp |-> CatalogEntry(coinType), found |-> TRUE]
  ELSE LET normalized == normalizeCoinType(coinType)
       IN  IF normalized # coinType /\ HasKey(normalized)
           THEN [comp |-> CatalogEntry(normalized), found |-> TRUE]
           ELSE NotFound

\* ---------------------------------------------------- year-range resolver
\* Index of the first rule set whose CoinType equals coinType, 0 when none.
RuleIndex(coinType) ==
  LET M == {i \in DOMAIN RegisteredRules : RegisteredRules[i].CoinType = coinType}
  IN  IF M = {} THEN 0 ELSE CHOOSE i \in M : \A j \in M : i <= j

LastRange(ranges, year) ==
  LET M == {j \in DOMAIN ranges :
              year >= ranges[j].StartYear /\ year <= ranges[j].EndYear}
  IN  IF M = {} THEN 0 ELSE CHOOSE j \in M : \A k \in M : j >= k

\* Index of the first range, in declaration order, that contains year; 0 when
\* no range does.
FirstRange(ranges, year) ==
  LET M == {j \in DOMAIN ranges :
              year >= ranges[j].StartYear /\ year <= ranges[j].EndYear}
  IN  IF M = {} THEN 0 ELSE CHOOSE j \in M : \A k \in M : j <= k

\* The catalog answer, tagged with the path that produced it.
ViaCatalog(coinType) ==
  LET r == GetComposition(coinType)
  IN  [comp |-> r.comp, found |-> r.found, via |-> "catalog"]

GetCompositionByYearNoDefault(coinType, year) ==
  LET i == RuleIndex(coinType)
      j == IF i = 0 THEN 0 ELSE FirstRange(RegisteredRules[i].YearRanges, year)
  IN  IF j = 0 THEN ViaCatalog(coinType)
      ELSE [comp |-> RegisteredRules[i].YearRanges[j].Composition,
            found |-> TRUE, via |-> "range"]

\* via records which return statement produced the answer.
GetCompositionByYear(coinType, year) ==
  LET i == RuleIndex(coinType)
  IN  IF i = 0 THEN ViaCatalog(coinType)
      ELSE LET ybc == RegisteredRules[i]
               j == FirstRange(ybc.YearRanges, year)
           IN  IF j # 0
               THEN [comp |-> ybc.YearRanges[j].Composition,
                     found |-> TRUE, via |-> "range"]
               ELSE [comp |-> ybc.DefaultComp, found |-> TRUE,
                     via |-> "default"]

\* a dispatch that never consults the year rules
ResolveNeverByYear(coinType, year) == GetComposition(coinType)

ResolveAlwaysByYear(coinType, year) ==
  LET r == GetCompositionByYear(coinType, year)
  IN  [comp |-> r.comp, found |-> r.found]

\* The callers' dispatch on coin.Year.
ResolveComposition(coinType, year) ==
  IF year > 0
  THEN LET r == GetCompositionByYear(coinType, year)
       IN  [comp |-> r.comp, found |-> r.found]
  ELSE GetComposition(coinType)

\* ----------------------------------------------------------------- state
VARIABLES
  now,            \* the wall clock, in minutes
  cachedPrices,   \* line 29: *SpotPrices, None for nil
  lastFetchTime,  \* line 30
  pc,             \* per caller: the line of GetSpotPrices it stands at
  realPrices,     \* per caller: what fetchRealPrices returned (line 39)
  ret,            \* per caller: the (prices, err) pair GetSpotPrices returned
  apc,            \* the administrative caller of UpdateSpotPricesManually
  serial,         \* TRUE: operations run one at a time; FALSE: in parallel
  calls,          \* number of GetSpotPrices calls begun
  overrides,      \* number of UpdateSpotPricesManually calls begun
  chk,            \* per caller: when its line-35 test ran, what it read and
                  \* whether a manual override had completed by then
  attempts,       \* per caller: feed requests made by its current call
  cacheBy,        \* who wrote cachedPrices last: a caller, "admin" or "nobody"
  stampBy,        \* who wrote lastFetchTime last
  lastOverride,   \* arguments and completion time of the last manual override
  fallbackAt,     \* clock reading when the static snapshot was last stamped;
                  \* ZeroTime once anything else has been written
  lastLive,       \* the last feed-derived snapshot put in the cache, if any
  eng,            \* the composition engine: the function last applied, its
                  \* arguments and its result; in the ledger, the request
                  \* last served and its answer
  db              \* the database: portfolios, coins and price history

vars == <<now, cachedPrices, lastFetchTime, pc, realPrices, ret, apc, serial,
          calls, overrides, chk, attempts, cacheBy, stampBy, lastOverride,
          fallbackAt, lastLive, eng, db>>

shared == <<cachedPrices, lastFetchTime>>
ghostW == <<cacheBy, stampBy, fallbackAt, lastLive>>

NoAttempts == [primary |-> 0, secondary |-> 0, primaryOk |-> FALSE,
               secondaryOk |-> FALSE, quote |-> None]

InitCommon ==
  /\ now = 0
  /\ cachedPrices = None
  /\ lastFetchTime = ZeroTime
  /\ pc = [p \in Callers |-> "idle"]
  /\ realPrices = [p \in Callers |-> None]
  /\ ret = [p \in Callers |-> None]
  /\ apc = "idle"
  /\ calls = 0
  /\ overrides = 0
  /\ chk = [p \in Callers |-> None]
  /\ attempts = [p \in Callers |-> NoAttempts]
  /\ cacheBy = "nobody"
  /\ stampBy = "nobody"
  /\ lastOverride = None
  /\ fallbackAt = ZeroTime
  /\ lastLive = None

\* The engine at rest: no function applied yet.
EngIdle == [op |-> "idle", in |-> None, year |-> 0, got |-> None,
            out |-> None, again |-> None]

Init == InitCommon /\ serial = FALSE /\ eng = EngIdle /\ db = None
InitSeq == InitCommon /\ serial = TRUE /\ eng = EngIdle /\ db = None

AllIdle == apc = "idle" /\ \A q \in Callers : pc[q] = "idle"
MayBegin == serial => AllIdle

\* time passes
Tick ==
  /\ \E t \in Instants : t > now /\ now' = t
  /\ UNCHANGED <<shared, pc, realPrices, ret, apc, serial, eng, db, calls, overrides,
                 chk, attempts, ghostW, lastOverride>>

\* line 35: a request enters GetSpotPrices and tests the cache.  The test
\* reads cachedPrices and then lastFetchTime; cachedPrices never goes back to
\* nil, so every outcome of the two reads taken apart is the outcome of
\* taking both at the moment of the second, and they are one step here.
CheckCache(p) ==
  /\ pc[p] = "idle"
  /\ calls < MaxCalls
  /\ MayBegin
  /\ calls' = calls + 1
  /\ chk' = [chk EXCEPT ![p] = [cold |-> cachedPrices = None, at |-> now,
                                lft |-> lastFetchTime,
                                after |-> /\ lastOverride # None
                                          /\ apc = "idle"]]
  /\ attempts' = [attempts EXCEPT ![p] = NoAttempts]
  /\ pc' = [pc EXCEPT ![p] =
              IF IsFresh(cachedPrices, lastFetchTime, now) THEN "l36" ELSE "l65"]
  /\ UNCHANGED <<now, shared, realPrices, ret, apc, serial, eng, db, overrides, ghostW,
                 lastOverride>>

\* line 36: return cachedPrices, nil
ReturnCached(p) ==
  /\ pc[p] = "l36"
  /\ ret' = [ret EXCEPT ![p] = [prices |-> cachedPrices, err |-> NoErr]]
  /\ pc' = [pc EXCEPT ![p] = "done"]
  /\ UNCHANGED <<now, shared, realPrices, apc, serial, eng, db, calls, overrides,
                 chk, attempts, ghostW, lastOverride>>

\* lines 65-68 (and line 40 when the primary feed answered)
FetchPrimary(p) ==
  /\ pc[p] = "l65"
  /\ \E resp \in PrimaryResponses :
       LET r == fetchGoldPriceOrg(resp) IN
         /\ attempts' = [attempts EXCEPT ![p].primary = @ + 1,
                                         ![p].primaryOk = (r.err = NoErr),
                                         ![p].quote =
                                           IF r.err = NoErr
                                             THEN resp.items[1] ELSE None]
         /\ IF PrimaryFailed(r)
              THEN /\ pc' = [pc EXCEPT ![p] = "l70"]
                   /\ UNCHANGED realPrices
              ELSE /\ realPrices' = [realPrices EXCEPT ![p] = r]
                   /\ pc' = [pc EXCEPT ![p] = IF LiveOk(r) THEN "l42" ELSE "l58"]
  /\ UNCHANGED <<now, shared, ret, apc, serial, eng, db, calls, overrides, chk,
                 ghostW, lastOverride>>

\* lines 70-75 (and line 40)
FetchSecondary(p) ==
  /\ pc[p] = "l70"
  /\ \E resp \in SecondaryResponses :
       LET r == fetchRealPricesTail(fetchMetalsLive(resp)) IN
         /\ attempts' = [attempts EXCEPT ![p].secondary = @ + 1,
                                         ![p].secondaryOk = (r.err = NoErr)]
         /\ realPrices' = [realPrices EXCEPT ![p] = r]
         /\ pc' = [pc EXCEPT ![p] = IF LiveOk(r) THEN "l42" ELSE "l58"]
  /\ UNCHANGED <<now, shared, ret, apc, serial, eng, db, calls, overrides, chk,
                 ghostW, lastOverride>>

\* line 42: cachedPrices = realPrices
StoreLive(p) ==
  /\ pc[p] = "l42"
  /\ cachedPrices' = realPrices[p].prices
  /\ cacheBy' = p
  /\ lastLive' = realPrices[p].prices
  /\ fallbackAt' = ZeroTime
  /\ pc' = [pc EXCEPT ![p] = "l43"]
  /\ UNCHANGED <<now, lastFetchTime, realPrices, ret, apc, serial, eng, db, calls,
                 overrides, chk, attempts, stampBy, lastOverride>>

\* lines 43-44: lastFetchTime = time.Now(); return realPrices, nil
StampLive(p) ==
  /\ pc[p] = "l43"
  /\ lastFetchTime' = now
  /\ stampBy' = p
  /\ fallbackAt' = ZeroTime
  /\ ret' = [ret EXCEPT ![p] = [prices |-> realPrices[p].prices, err |-> NoErr]]
  /\ pc' = [pc EXCEPT ![p] = "done"]
  /\ UNCHANGED <<now, cachedPrices, realPrices, apc, serial, eng, db, calls, overrides,
                 chk, attempts, cacheBy, lastOverride, lastLive>>

\* lines 47-58: build the static snapshot; cachedPrices = prices
StoreFallback(p) ==
  /\ pc[p] = "l58"
  /\ cachedPrices' = FallbackResult.prices
  /\ cacheBy' = p
  /\ fallbackAt' = ZeroTime
  /\ pc' = [pc EXCEPT ![p] = "l59"]
  /\ UNCHANGED <<now, lastFetchTime, realPrices, ret, apc, serial, eng, db, calls,
                 overrides, chk, attempts, stampBy, lastOverride, lastLive>>

\* lines 59-61: lastFetchTime = time.Now(); return prices, nil
StampFallback(p) ==
  /\ pc[p] = "l59"
  /\ lastFetchTime' = now
  /\ stampBy' = p
  /\ fallbackAt' = now
  /\ ret' = [ret EXCEPT ![p] = FallbackResult]
  /\ pc' = [pc EXCEPT ![p] = "done"]
  /\ UNCHANGED <<now, cachedPrices, realPrices, apc, serial, eng, db, calls, overrides,
                 chk, attempts, cacheBy, lastOverride, lastLive>>

\* the caller of GetSpotPrices has used the returned pair
Deliver(p) ==
  /\ pc[p] = "done"
  /\ pc' = [pc EXCEPT ![p] = "idle"]
  /\ ret' = [ret EXCEPT ![p] = None]
  /\ realPrices' = [realPrices EXCEPT ![p] = None]
  /\ chk' = [chk EXCEPT ![p] = None]
  /\ attempts' = [attempts EXCEPT ![p] = NoAttempts]
  /\ UNCHANGED <<now, shared, apc, serial, eng, db, calls, overrides, ghostW,
                 lastOverride>>

\* lines 201-209 of UpdateSpotPricesManually: cachedPrices = &SpotPrices{...}
ManualStore ==
  /\ apc = "idle"
  /\ overrides < MaxOverrides
  /\ MayBegin
  /\ \E a \in ManualInputs :
       /\ cachedPrices' = ManualPrices(a[1], a[2], a[3], a[4])
       /\ lastOverride' = [args |-> a, at |-> ZeroTime]
  /\ overrides' = overrides + 1
  /\ cacheBy' = "admin"
  /\ fallbackAt' = ZeroTime
  /\ apc' = "l210"
  /\ UNCHANGED <<now, lastFetchTime, pc, realPrices, ret, serial, eng, db, calls,
                 chk, attempts, stampBy, lastLive>>

\* line 210: lastFetchTime = time.Now()
ManualStamp ==
  /\ apc = "l210"
  /\ lastFetchTime' = now
  /\ stampBy' = "admin"
  /\ fallbackAt' = ZeroTime
  /\ lastOverride' = [lastOverride EXCEPT !.at = now]
  /\ apc' = "idle"
  /\ UNCHANGED <<now, cachedPrices, pc, realPrices, ret, serial, eng, db, calls,
                 overrides, chk, attempts, cacheBy, lastLive>>

Next ==
  \/ Tick
  \/ \E p \in Callers : CheckCache(p)
  \/ \E p \in Callers : ReturnCached(p)
  \/ \E p \in Callers : FetchPrimary(p)
  \/ \E p \in Callers : FetchSecondary(p)
  \/ \E p \in Callers : StoreLive(p)
  \/ \E p \in Callers : StampLive(p)
  \/ \E p \in Callers : StoreFallback(p)
  \/ \E p \in Callers : StampFallback(p)
  \/ \E p \in Callers : Deliver(p)
  \/ ManualStore
  \/ ManualStamp

\* requests handled in parallel (one goroutine per request)
Spec == Init /\ [][Next]_vars
\* requests handled one at a time
SpecSeq == InitSeq /\ [][Next]_vars

\* ---------------------------------------------------------- lookup inputs
\* A coin name as a certification service or a user writes it: what stands
\* before the type, the type, and what stands after it.
NamePrefixes ==
  { <<>>,
    <<"1","9","2","1"," ">>,
    <<"1","9","2","1","-","S"," ">>,
    <<"1","9","2","1">>,
    <<"1","9","2","1"," ","1","9","2","2"," ">>,
    <<"1","9","2","1","-">> }
NameSuffixes ==
  { <<>>,
    <<" ","M","S","6","7">>,
    <<" ","P","R","7","0","D","C","A","M">>,
    <<" ","P","C","G","S","7","0">>,
    <<" ","N","G","C","6","5">>,
    <<" ","M","S","6","7"," ","M","S","6","8">>,
    <<"\t","A","U","5","8">> }
\* Every catalog key, every type with year rules and names that are neither.
NameCores ==
  {CommonCompositions[i].key : i \in DOMAIN CommonCompositions}
    \cup {RegisteredRules[i].CoinType : i \in DOMAIN RegisteredRules}
    \cup { <<>>,
           <<"m","o","r","g","a","n"," ","d","o","l","l","a","r">>,
           <<"G","o","l","d"," ","C","o","i","n">> }
\* coin.Year: unset (0), negative, and years at, between and around the
\* bounds of the registered ranges.
Years == {0 - 1, 0, 1942, 1943, 1959, 1960, 1964, 1965, 1967, 1970, 1971,
          1975, 1976, 1977}

EngInput(p, c, x) ==
  [op |-> "input", in |-> [prefix |-> p, core |-> c, suffix |-> x],
   year |-> 0, got |-> None, out |-> None, again |-> None]
\* The string handed to the functions.
Text(in) == in.prefix \o in.core \o in.suffix

\* Everything the price oracle owns, and the database; the lookup functions
\* touch none of it.
oracle == <<now, cachedPrices, lastFetchTime, pc, realPrices, ret, apc, serial,
            calls, overrides, chk, attempts, cacheBy, stampBy, lastOverride,
            fallbackAt, lastLive, db>>

InitLookup ==
  /\ InitCommon
  /\ serial = TRUE
  /\ db = None
  /\ eng \in {EngInput(p, c, x) :
               p \in NamePrefixes, c \in NameCores, x \in NameSuffixes}

\* normalizeCoinType(name)
NormalizeCall ==
  /\ eng.op = "input"
  /\ eng' = [eng EXCEPT !.op = "normalize",
                        !.out = normalizeCoinType(Text(eng.in))]
  /\ UNCHANGED oracle

\* normalizeCoinType applied to its own result
NormalizeAgain ==
  /\ eng.op = "normalize"
  /\ eng' = [eng EXCEPT !.op = "normalize2",
                        !.again = normalizeCoinType(eng.out)]
  /\ UNCHANGED oracle

\* GetComposition(name)
GetCompositionCall ==
  /\ eng.op = "input"
  /\ eng' = [eng EXCEPT !.op = "lookup",
                        !.out = GetComposition(Text(eng.in))]
  /\ UNCHANGED oracle

\* GetCompositionByYear(name, year)
GetCompositionByYearCall ==
  /\ eng.op = "input"
  /\ \E y \in Years :
       eng' = [eng EXCEPT !.op = "byYear", !.year = y,
                          !.out = GetCompositionByYear(Text(eng.in), y)]
  /\ UNCHANGED oracle

\* the composition step of CreateCoin for a coin named name with Year year
ResolveCall ==
  /\ eng.op = "input"
  /\ \E y \in Years :
       eng' = [eng EXCEPT !.op = "resolve", !.year = y,
                          !.out = ResolveComposition(Text(eng.in), y)]
  /\ UNCHANGED oracle

NextLookup ==
  \/ NormalizeCall
  \/ NormalizeAgain
  \/ GetCompositionCall
  \/ GetCompositionByYearCall
  \/ ResolveCall

SpecLookup == InitLookup /\ [][NextLookup]_vars

\* -------------------------------------------------------- melt calculator
\* A dollar amount is num over the fixed divisor of its unit: weight in
\* 1/100000 troy ounce times purity in 1/100 percent times cents per troy
\* ounce ("ozt", divisor 10^11), or weight in 1/10 gram times whole percent
\* times cents per pound ("lb", divisor 453.592 * 10^5). Zero has one form.
\* Rounding of float64 is not modelled. A float64 product of a catalog
\* weight, a purity and a real price does not fit a 32-bit integer, so num is
\* kept in two parts, high * 10^8 + num, both carrying the sign of the amount.
Abs(n) == IF n < 0 THEN 0 - n ELSE n
Amount(neg, hi, lo, per) ==
  IF hi = 0 /\ lo = 0 THEN [high |-> 0, num |-> 0, per |-> "none"]
  ELSE [high |-> IF neg THEN 0 - hi ELSE hi,
        num |-> IF neg THEN 0 - lo ELSE lo, per |-> per]
Money(num, per) ==
  Amount(num < 0, Abs(num) \div (10000 * 10000), Abs(num) % (10000 * 10000),
         per)
\* a * b as an amount, exact for |a| up to 10^9 and |b| up to 10^6: long
\* multiplication on the halves of a and b in base 10^4
Times(a, b, per) ==
  LET a1 == Abs(a) \div 10000
      a0 == Abs(a) % 10000
      b1 == Abs(b) \div 10000
      b0 == Abs(b) % 10000
      mid == a1 * b0 + a0 * b1
      low == (mid % 10000) * 10000 + a0 * b0
  IN  Amount((a < 0) # (b < 0),
             a1 * b1 + (mid \div 10000) + (low \div (10000 * 10000)),
             low % (10000 * 10000), per)
Negative(v) == v.high < 0 \/ v.num < 0

\* fetchRealPrices on one response of each feed; the secondary feed is asked
\* only when the primary failed.
fetchRealPrices(presp, sresp) ==
  LET r == fetchGoldPriceOrg(presp)
  IN  IF PrimaryFailed(r) THEN fetchRealPricesTail(fetchMetalsLive(sresp))
      ELSE r

\* A body of the primary feed quoting gold below zero: the validation at
\* lines 105-110 rejects only a price equal to 0.
BelowZeroResponses ==
  [kind : {"json"}, status : {200},
   items : {<<[xauPrice |-> 0 - g, xagPrice |-> s]>> :
              g \in PrimaryGold \ {0}, s \in PrimarySilver \ {0}}]

\* What a refresh can get from the feeds.
FeedResults ==
  {fetchRealPrices(presp, sresp) :
     presp \in PrimaryResponses \cup BelowZeroResponses,
     sresp \in SecondaryResponses}

\* GetSpotPrices run from entry to return with no other call in between:
\* the pair it returns and what it leaves in cachedPrices and lastFetchTime.
\* real is what fetchRealPrices answers if it is asked.
GetSpotPricesSeq(cp, lft, t, real) ==
  IF IsFresh(cp, lft, t)
  THEN [ret |-> [prices |-> cp, err |-> NoErr], cache |-> cp, stamp |-> lft]
  ELSE LET got == IF LiveOk(real) THEN [prices |-> real.prices, err |-> NoErr]
                  ELSE FallbackResult
       IN  [ret |-> got, cache |-> got.prices, stamp |-> t]

CalculateMeltValueCopperError(got, metalType, weight, purity) ==
  IF got.err # NoErr THEN [value |-> Money(0, "ozt"), err |-> got.err]
  ELSE IF metalType \in {"gold", "silver", "platinum", "palladium"}
  THEN LET pricePerOz == CASE metalType = "gold" -> got.prices.Gold
                           [] metalType = "silver" -> got.prices.Silver
                           [] metalType = "platinum" -> got.prices.Platinum
                           [] metalType = "palladium" -> got.prices.Palladium
       IN  [value |-> Times(weight * purity, pricePerOz, "ozt"),
            err |-> NoErr]
  ELSE [value |-> Money(0, "ozt"), err |-> "unsupported metal type"]

\* got is the pair GetSpotPrices returned at line 170.
CalculateMeltValue(got, metalType, weight, purity) ==
  IF got.err # NoErr THEN [value |-> Money(0, "ozt"), err |-> got.err]
  ELSE IF metalType \in {"gold", "silver", "platinum", "palladium"}
  THEN LET pricePerOz == CASE metalType = "gold" -> got.prices.Gold
                           [] metalType = "silver" -> got.prices.Silver
                           [] metalType = "platinum" -> got.prices.Platinum
                           [] metalType = "palladium" -> got.prices.Palladium
       IN  [value |-> Times(weight * purity, pricePerOz, "ozt"),
            err |-> NoErr]
  ELSE IF metalType \in {"copper", "nickel"}
  THEN [value |-> Money(0, "ozt"), err |-> NoErr]
  ELSE [value |-> Money(0, "ozt"), err |-> "unsupported metal type"]

\* got is the pair GetSpotPrices returned at line 218.
CalculateBaseMeltValue(got, weightGrams, copperPercent, nickelPercent) ==
  IF got.err # NoErr THEN [value |-> Money(0, "lb"), err |-> got.err]
  ELSE LET copperValue == weightGrams * copperPercent * got.prices.Copper
           nickelValue == weightGrams * nickelPercent * got.prices.Nickel
       IN  [value |-> Money(copperValue + nickelValue, "lb"), err |-> NoErr]

CalculateMeltValueFromCompositionPrecious(got, comp) ==
  CalculateMeltValue(got, comp.MetalType, comp.Weight, comp.Purity)

CalculateMeltValueFromComposition(got, comp) ==
  IF comp.IsBaseMetal
  THEN CalculateBaseMeltValue(got, comp.WeightGrams, comp.CopperPercent,
                              comp.NickelPercent)
  ELSE CalculateMeltValue(got, comp.MetalType, comp.Weight, comp.Purity)

\* ------------------------------------------------------ calculator inputs
\* req.MetalType of the melt-value endpoint: the metals the switch names and
\* two it does not.
MetalTypes == {"gold", "silver", "platinum", "palladium", "copper",
               "nickel", "zinc", ""}
\* req.Weight and req.Purity, in the units of Money; the endpoint accepts any
\* number.
Weights == {0 - 1, 0, 2}
Purities == {0, 100}
\* Every composition of the static catalog and of the year-rule table
CatalogCompositions ==
  {CommonCompositions[i].comp : i \in DOMAIN CommonCompositions}
RuleCompositions ==
  UNION {{YearBasedCompositions[i].YearRanges[k].Composition :
            k \in DOMAIN YearBasedCompositions[i].YearRanges}
           \cup {YearBasedCompositions[i].DefaultComp} :
         i \in DOMAIN YearBasedCompositions}
TableCompositions == CatalogCompositions \cup RuleCompositions
\* Compositions with every combination of the flag and the two groups of
\* fields, and the compositions of the two tables.
CalcCompositions ==
  {MetalComposition("sample", mt, w, p, b, g[1], g[2], g[3]) :
     mt \in {"silver", "copper"}, w \in {0, 2}, p \in {0, 100},
     b \in BOOLEAN, g \in {<<0, 0, 0>>, <<50, 75, 25>>}}
    \cup TableCompositions

\* The bookkeeping of the oracle's own properties is not kept here.
oracleRest == <<pc, realPrices, ret, apc, serial, calls, overrides, chk,
                attempts, cacheBy, stampBy, lastOverride, fallbackAt,
                lastLive, db>>

InitCalc == InitCommon /\ serial = TRUE /\ eng = EngIdle /\ db = None

\* CalculateMeltValue(metalType, weight, purity), GetSpotPrices included
MeltValueCall ==
  /\ eng.op = "idle"
  /\ MayBegin
  /\ \E mt \in MetalTypes, w \in Weights, p \in Purities, real \in FeedResults :
       LET g == GetSpotPricesSeq(cachedPrices, lastFetchTime, now, real)
       IN  /\ cachedPrices' = g.cache
           /\ lastFetchTime' = g.stamp
           /\ eng' = [op |-> "melt",
                      in |-> [MetalType |-> mt, Weight |-> w, Purity |-> p],
                      year |-> 0, got |-> g.ret,
                      out |-> CalculateMeltValue(g.ret, mt, w, p),
                      again |-> None]
  /\ UNCHANGED <<now, oracleRest>>

\* CalculateMeltValueFromComposition(comp), GetSpotPrices included
FromCompositionCall ==
  /\ eng.op = "idle"
  /\ MayBegin
  /\ \E comp \in CalcCompositions, real \in FeedResults :
       LET g == GetSpotPricesSeq(cachedPrices, lastFetchTime, now, real)
       IN  /\ cachedPrices' = g.cache
           /\ lastFetchTime' = g.stamp
           /\ eng' = [op |-> "fromComp", in |-> comp, year |-> 0,
                      got |-> g.ret,
                      out |-> CalculateMeltValueFromComposition(g.ret, comp),
                      again |-> None]
  /\ UNCHANGED <<now, oracleRest>>

\* What binding:"required" makes of the request body: an empty string or a
\* zero number counts as missing.
BindFails(mt, w, p) == mt = "" \/ w = 0 \/ p = 0

\* handlers.CalculateMeltValue: the HTTP status the endpoint answers with
MeltValueStatus(mt, w, p, r) ==
  IF BindFails(mt, w, p) THEN 400
  ELSE IF r.err # NoErr THEN 500
  ELSE 200

\* POST /metals/melt-value: the whole handler, the call of
\* metals.CalculateMeltValue included when the body binds.
MeltValueEndpoint ==
  /\ eng.op = "idle"
  /\ MayBegin
  /\ \E mt \in MetalTypes, w \in Weights, p \in Purities, real \in FeedResults :
       LET g == GetSpotPricesSeq(cachedPrices, lastFetchTime, now, real)
           r == CalculateMeltValue(g.ret, mt, w, p)
           req == [MetalType |-> mt, Weight |-> w, Purity |-> p]
       IN  IF BindFails(mt, w, p)
           THEN /\ eng' = [op |-> "endpoint", in |-> req, year |-> 0,
                           got |-> None, out |-> None, again |-> None,
                           status |-> MeltValueStatus(mt, w, p, r)]
                /\ UNCHANGED shared
           ELSE /\ cachedPrices' = g.cache
                /\ lastFetchTime' = g.stamp
                /\ eng' = [op |-> "endpoint", in |-> req, year |-> 0,
                           got |-> g.ret, out |-> r, again |-> None,
                           status |-> MeltValueStatus(mt, w, p, r)]
  /\ UNCHANGED <<now, oracleRest>>

\* the caller has used the returned value
CalcReturn ==
  /\ eng.op \in {"melt", "fromComp", "endpoint"}
  /\ eng' = EngIdle
  /\ UNCHANGED <<now, shared, oracleRest>>

NextCalc ==
  \/ Tick
  \/ ManualStore
  \/ ManualStamp
  \/ MeltValueCall
  \/ FromCompositionCall
  \/ MeltValueEndpoint
  \/ CalcReturn

SpecCalc == InitCalc /\ [][NextCalc]_vars

\* ------------------------------------------------------------------ ledger
\* The handlers that keep portfolios, coins and price history in the
\* database. A handler runs from its first query to its answer as one step;
\* the clock does not advance inside it, so the calculator calls of one
\* request see one snapshot. Of a coin's columns the ones the handlers below
\* branch on or compute are kept, and Notes for the plain ones.
Users == {"u1", "u2"}
MaxPortfolios == 2
MaxCoins == 1
MaxHistory == 1

BuffaloNickel == <<"B", "u", "f", "f", "a", "l", "o", " ", "N", "i", "c", "k", "e", "l">>
WashingtonQuarter == <<"W", "a", "s", "h", "i", "n", "g", "t", "o", "n", " ", "Q", "u", "a", "r", "t", "e", "r">>
\* a type neither table knows
GoldCoin == <<"G", "o", "l", "d", " ", "C", "o", "i", "n">>

\* the float64 zero of a value column
Zero == Money(0, "usd")
\* req.MetalType == "" || req.MetalWeight == 0 || req.MetalPurity == 0
Lacks(mt, mw, mp) == mt = "" \/ mw = 0 \/ mp = 0
\* MetalType != "" && MetalWeight > 0 && MetalPurity > 0
HasMetal(mt, mw, mp) == mt # "" /\ mw > 0 /\ mp > 0

\* The database after the migration, before any request. AutoMigrate is
\* given Portfolio.Coins with foreignKey:PortfolioID and no OnDelete rule:
\* whether the coins table carries the foreign key constraint (ON DELETE NO
\* ACTION) depends on the migrator and on the tables it found, so both
\* schemas are initial states.
EmptyDb(fkey) ==
  [fkey |-> fkey, portfolios |-> {}, nport |-> 0, coins |-> {}, ncoin |-> 0,
   history |-> <<>>, made |-> <<>>]

\* Where("id = ? AND user_id = ?", pid, userID).First(&portfolio) finds a row
OwnsAnyones(d, pid, u) == \E p \in d.portfolios : p.ID = pid
Owns(d, pid, u) == \E p \in d.portfolios : p.ID = pid /\ p.UserID = u
\* First(&coin, "id = ?", coinID)
CoinsByID(d, id) == {c \in d.coins : c.ID = id}

\* ---- requests
\* Bodies of POST /coins that give only a coin type and perhaps a year, and
\* one that gives the metal content itself.
TypeOnlyRequests ==
  {[CoinType |-> t[1], Year |-> t[2], CurrentValue |-> Zero, MetalType |-> "",
    MetalWeight |-> 0, MetalPurity |-> 0] :
     t \in ({BuffaloNickel} \X {0})
             \cup ({WashingtonQuarter} \X {1931, 1964, 1965})
             \cup ({GoldCoin} \X {0})}
CreateCoinBodies ==
  TypeOnlyRequests
    \cup {[CoinType |-> WashingtonQuarter, Year |-> 1964,
           CurrentValue |-> Zero, MetalType |-> "silver", MetalWeight |-> 2,
           MetalPurity |-> 100]}
\* Bodies of PUT /coins/:id: nothing but perhaps a move, a new type and
\* year, a value set by hand, metal content set by hand. PortfolioID 0 is
\* the absent field.
UpdateCoinBodies ==
  {[CoinType |-> <<>>, Year |-> 0, CurrentValue |-> Zero, Notes |-> "",
    MetalType |-> "", MetalWeight |-> 0, MetalPurity |-> 0],
   [CoinType |-> WashingtonQuarter, Year |-> 1965, CurrentValue |-> Zero,
    Notes |-> "", MetalType |-> "", MetalWeight |-> 0, MetalPurity |-> 0],
   [CoinType |-> <<>>, Year |-> 0, CurrentValue |-> Money(500, "usd"),
    Notes |-> "", MetalType |-> "", MetalWeight |-> 0, MetalPurity |-> 0],
   [CoinType |-> <<>>, Year |-> 0, CurrentValue |-> Zero, Notes |-> "",
    MetalType |-> "silver", MetalWeight |-> 2, MetalPurity |-> 100]}

\* What a refresh gets from the feeds while the ledger is served: the
\* primary feed's quote, the secondary feed's, or nothing.
LedgerFeedResults ==
  LET goodPrimary == [kind |-> "json", status |-> 200,
                      items |-> <<[xauPrice |-> 410000, xagPrice |-> 4800]>>]
      deadPrimary == [kind |-> "neterr", status |-> 200, items |-> <<>>]
      goodSecondary == [kind |-> "json", status |-> 200, gold |-> 420000,
                        silver |-> 4900, rest |-> 97000]
      deadSecondary == [kind |-> "neterr", status |-> 200, gold |-> 0,
                        silver |-> 0, rest |-> 0]
  IN  {fetchRealPrices(goodPrimary, deadSecondary),
       fetchRealPrices(deadPrimary, goodSecondary),
       fetchRealPrices(deadPrimary, deadSecondary)}

\* The answers fetchRealPrices can give to the request being served. With a
\* fresh cache no feed is asked, and one answer stands for all.
FeedsAsked ==
  IF IsFresh(cachedPrices, lastFetchTime, now)
  THEN {CHOOSE r \in LedgerFeedResults : ~LiveOk(r)}
  ELSE LedgerFeedResults

\* The year dispatch of the handlers (CreateCoin lines 119-124, the same in
\* UpdateCoin and BackfillMetalComposition), worked out once for every coin
\* type and year a row of the ledger can carry.
LedgerTypes == {BuffaloNickel, WashingtonQuarter, GoldCoin}
LedgerYears == {0, 1931, 1964, 1965}
Resolved ==
  [k \in LedgerTypes \X LedgerYears |-> ResolveComposition(k[1], k[2])]
ResolvedAs(coinType, year) == Resolved[<<coinType, year>>]

\* ---- CreateCoin, lines 73-144: the row to insert, the composition looked
\* up, and whether a calculator function (and so GetSpotPrices) was called.
\* got is the pair GetSpotPrices returns at this instant, looked what the
\* year dispatch of lines 119-124 answers for the row's type and year.
CreateCoinRow(id, pid, req, looked, got) ==
  LET lacks == Lacks(req.MetalType, req.MetalWeight, req.MetalPurity)
      res == IF lacks THEN looked ELSE NotFound
      filled == lacks /\ res.found
      mt == IF filled THEN res.comp.MetalType ELSE req.MetalType
      mw == IF filled THEN res.comp.Weight ELSE req.MetalWeight
      mp == IF filled THEN res.comp.Purity ELSE req.MetalPurity
      melt == CalculateMeltValueFromComposition(got, res.comp)
      cv1 == IF filled /\ melt.err = NoErr THEN melt.value
             ELSE req.CurrentValue
      always == cv1 = Zero /\ HasMetal(mt, mw, mp)
      again == CalculateMeltValue(got, mt, mw, mp)
      cv2 == IF always /\ again.err = NoErr THEN again.value ELSE cv1
  IN  [row |-> [ID |-> id, PortfolioID |-> pid, CoinType |-> req.CoinType,
                Year |-> req.Year, CurrentValue |-> cv2, Notes |-> "",
                MetalType |-> mt, MetalWeight |-> mw, MetalPurity |-> mp],
       res |-> res, called |-> filled \/ always]

\* ---- UpdateCoin, lines 196-307, for a request that passed the checks
UpdatedType(coin, req) ==
  IF req.CoinType # <<>> THEN req.CoinType ELSE coin.CoinType
UpdatedYear(coin, req) == IF req.Year # 0 THEN req.Year ELSE coin.Year
\* looked is what the year dispatch of lines 270-275 answers for the
\* updated type and year.
UpdateCoinRow(coin, req, looked, got) ==
  LET pid == IF req.PortfolioID # 0 /\ req.PortfolioID # coin.PortfolioID
             THEN req.PortfolioID ELSE coin.PortfolioID
      ct == UpdatedType(coin, req)
      yr == UpdatedYear(coin, req)
      cv0 == IF req.CurrentValue # Zero THEN req.CurrentValue
             ELSE coin.CurrentValue
      mt0 == IF req.MetalType # "" THEN req.MetalType ELSE coin.MetalType
      mw0 == IF req.MetalWeight # 0 THEN req.MetalWeight ELSE coin.MetalWeight
      mp0 == IF req.MetalPurity # 0 THEN req.MetalPurity ELSE coin.MetalPurity
      auto == (req.CoinType # <<>> \/ req.Year # 0) /\ Lacks(mt0, mw0, mp0)
      res == IF auto THEN looked ELSE NotFound
      filled == auto /\ res.found
      mt1 == IF filled /\ mt0 = "" THEN res.comp.MetalType ELSE mt0
      mw1 == IF filled /\ mw0 = 0 THEN res.comp.Weight ELSE mw0
      mp1 == IF filled /\ mp0 = 0 THEN res.comp.Purity ELSE mp0
      melt == CalculateMeltValueFromComposition(got, res.comp)
      cv1 == IF filled /\ melt.err = NoErr THEN melt.value ELSE cv0
      recalc == /\ HasMetal(mt1, mw1, mp1)
                /\ \/ req.MetalType # "" \/ req.MetalWeight # 0
                   \/ req.MetalPurity # 0 \/ cv1 = Zero
      again == CalculateMeltValue(got, mt1, mw1, mp1)
      cv2 == IF recalc /\ again.err = NoErr THEN again.value ELSE cv1
  IN  [row |-> [ID |-> coin.ID, PortfolioID |-> pid, CoinType |-> ct,
                Year |-> yr, CurrentValue |-> cv2, Notes |-> req.Notes,
                MetalType |-> mt1, MetalWeight |-> mw1, MetalPurity |-> mp1],
       called |-> filled \/ recalc]

\* ---- BackfillMetalComposition, lines 98-129, for one coin of the result set
NeedsBackfillAlways(coin) == TRUE
\* line 100, negated: the coin is not skipped
NeedsBackfill(coin) ==
  ~HasMetal(coin.MetalType, coin.MetalWeight, coin.MetalPurity)
\* looked is what the year dispatch of lines 108-112 answers for the coin.
BackfillSaves(coin, looked) == NeedsBackfill(coin) /\ looked.found
BackfillRow(coin, looked, got) ==
  LET res == looked
      melt == CalculateMeltValueFromComposition(got, res.comp)
  IN  IF ~BackfillSaves(coin, looked) THEN coin
      ELSE [coin EXCEPT !.MetalType = res.comp.MetalType,
                        !.MetalWeight = res.comp.Weight,
                        !.MetalPurity = res.comp.Purity,
                        !.CurrentValue = IF melt.err = NoErr THEN melt.value
                                         ELSE @]
\* lines 86-90: the coins joined to the portfolios of the user
BackfillCoins(d, u) == {c \in d.coins : Owns(d, c.PortfolioID, u)}
\* the coins table after the loop of lines 98-129 has run for user u;
\* looked[c] is what the year dispatch answers for coin c
Backfilled(d, u, looked, got) ==
  (d.coins \ BackfillCoins(d, u))
    \cup {BackfillRow(c, looked[c], got) : c \in BackfillCoins(d, u)}

\* ---- RecordPriceSnapshot, lines 69-75: the melt value of the new row
SnapshotCalls(coin) ==
  HasMetal(coin.MetalType, coin.MetalWeight, coin.MetalPurity)
SnapshotMeltValue(coin, got) ==
  LET mv == CalculateMeltValue(got, coin.MetalType, coin.MetalWeight,
                               coin.MetalPurity)
  IN  IF SnapshotCalls(coin) /\ mv.err = NoErr THEN mv.value ELSE Zero

\* ---- the ledger's specification
\* What the ledger leaves alone of the oracle's bookkeeping.
ledgerRest == <<pc, realPrices, ret, apc, serial, calls, overrides, chk,
                attempts, cacheBy, stampBy, lastOverride, fallbackAt,
                lastLive>>

InitLedger ==
  /\ InitCommon
  /\ serial = TRUE
  /\ eng = EngIdle
  /\ db \in {EmptyDb(f) : f \in BOOLEAN}

\* the request last served: who asked, the :id of the coin in its path (0
\* when the path has none) and the HTTP status answered. What else was asked
\* shows in what the step did to the database.
Served(user, id, status) ==
  [op |-> "request", in |-> user, id |-> id, out |-> status]

\* what the author of a row was given and whether the row is still as made
MadeWith(d, id, m) ==
  [i \in (DOMAIN d.made) \cup {id} |-> IF i = id THEN m ELSE d.made[i]]
Touched(d, ids) ==
  [i \in DOMAIN d.made |->
     IF i \in ids THEN [d.made[i] EXCEPT !.kept = FALSE] ELSE d.made[i]]
\* the rows a backfill had in its result set, saved or skipped
Visited(made, ids) ==
  [i \in DOMAIN made |->
     IF i \in ids THEN [made[i] EXCEPT !.visited = TRUE] ELSE made[i]]

\* POST /portfolios
CreatePortfolio ==
  /\ eng.op = "idle"
  /\ MayBegin
  /\ db.nport < MaxPortfolios
  /\ \E u \in Users :
       LET id == db.nport + 1 IN
         /\ db' = [db EXCEPT !.portfolios = @ \cup {[ID |-> id, UserID |-> u]},
                             !.nport = id]
         /\ eng' = Served(u, 0, 201)
  /\ UNCHANGED <<now, shared, ledgerRest>>

\* DELETE /portfolios/:id
DeletePortfolio ==
  /\ eng.op = "idle"
  /\ MayBegin
  /\ \E u \in Users, pid \in 1..MaxPortfolios :
       LET refused == db.fkey /\ \E c \in db.coins : c.PortfolioID = pid
       IN  IF ~Owns(db, pid, u)
           THEN /\ eng' = Served(u, 0, 404)
                /\ UNCHANGED db
           ELSE IF refused
           THEN /\ eng' = Served(u, 0, 500)
                /\ UNCHANGED db
           ELSE /\ eng' = Served(u, 0, 200)
                /\ db' = [db EXCEPT !.portfolios =
                                      {p \in @ : p.ID # pid}]
  /\ UNCHANGED <<now, shared, ledgerRest>>

\* POST /coins
CreateCoin ==
  /\ eng.op = "idle"
  /\ MayBegin
  /\ \E u \in Users, pid \in 1..MaxPortfolios, req \in CreateCoinBodies,
        real \in FeedsAsked :
       LET g == GetSpotPricesSeq(cachedPrices, lastFetchTime, now, real)
           id == db.ncoin + 1
           new == CreateCoinRow(id, pid, req,
                                ResolvedAs(req.CoinType, req.Year), g.ret)
       IN  IF ~Owns(db, pid, u)
           THEN /\ eng' = Served(u, 0, 404)
                /\ UNCHANGED <<db, shared>>
           ELSE /\ db.ncoin < MaxCoins
                /\ db' = [db EXCEPT
                            !.coins = @ \cup {new.row},
                            !.ncoin = id,
                            !.made = MadeWith(db, id,
                                       [typeOnly |-> req \in TypeOnlyRequests,
                                        found |-> new.res.found,
                                        got |-> IF new.called THEN g.ret
                                                ELSE None,
                                        kept |-> TRUE,
                                        visited |-> FALSE])]
                /\ IF new.called
                   THEN cachedPrices' = g.cache /\ lastFetchTime' = g.stamp
                   ELSE UNCHANGED shared
                /\ eng' = Served(u, 0, 201)
  /\ UNCHANGED <<now, ledgerRest>>

\* PUT /coins/:id
UpdateCoin ==
  /\ eng.op = "idle"
  /\ MayBegin
  /\ \E u \in Users, id \in 1..MaxCoins, dest \in 0..MaxPortfolios,
        body \in UpdateCoinBodies, real \in FeedsAsked :
       LET g == GetSpotPricesSeq(cachedPrices, lastFetchTime, now, real)
           req == [PortfolioID |-> dest] @@ body
           found == CoinsByID(db, id)
       IN  IF found = {}
           THEN /\ eng' = Served(u, id, 404)
                /\ UNCHANGED <<db, shared>>
           ELSE LET coin == CHOOSE c \in found : TRUE
                    new == UpdateCoinRow(coin, req,
                                         ResolvedAs(UpdatedType(coin, req),
                                                    UpdatedYear(coin, req)),
                                         g.ret)
                    moves == dest # 0 /\ dest # coin.PortfolioID
                IN  IF ~Owns(db, coin.PortfolioID, u)
                    THEN /\ eng' = Served(u, id, 403)
                         /\ UNCHANGED <<db, shared>>
                    ELSE IF moves /\ ~Owns(db, dest, u)
                    THEN /\ eng' = Served(u, id, 400)
                         /\ UNCHANGED <<db, shared>>
                    ELSE /\ db' = [db EXCEPT
                                     !.coins = (@ \ {coin}) \cup {new.row},
                                     !.made = Touched(db, {id})]
                         /\ IF new.called
                            THEN /\ cachedPrices' = g.cache
                                 /\ lastFetchTime' = g.stamp
                            ELSE UNCHANGED shared
                         /\ eng' = Served(u, id, 200)
  /\ UNCHANGED <<now, ledgerRest>>

\* DELETE /coins/:id
DeleteCoin ==
  /\ eng.op = "idle"
  /\ MayBegin
  /\ \E u \in Users, id \in 1..MaxCoins :
       LET found == CoinsByID(db, id)
       IN  IF found = {}
           THEN /\ eng' = Served(u, id, 404)
                /\ UNCHANGED db
           ELSE IF \E c \in found : ~Owns(db, c.PortfolioID, u)
           THEN /\ eng' = Served(u, id, 403)
                /\ UNCHANGED db
           ELSE /\ eng' = Served(u, id, 200)
                /\ db' = [db EXCEPT !.coins = @ \ found]
  /\ UNCHANGED <<now, shared, ledgerRest>>

\* POST /coins/:id/price-history
RecordPriceSnapshot ==
  /\ eng.op = "idle"
  /\ MayBegin
  /\ \E u \in Users, id \in 1..MaxCoins, real \in FeedsAsked :
       LET g == GetSpotPricesSeq(cachedPrices, lastFetchTime, now, real)
           found == CoinsByID(db, id)
       IN  IF found = {}
           THEN /\ eng' = Served(u, id, 404)
                /\ UNCHANGED <<db, shared>>
           ELSE LET coin == CHOOSE c \in found : TRUE
                    row == [CoinID |-> id,
                            MeltValue |-> SnapshotMeltValue(coin, g.ret)]
                IN  IF ~Owns(db, coin.PortfolioID, u)
                    THEN /\ eng' = Served(u, id, 403)
                         /\ UNCHANGED <<db, shared>>
                    ELSE /\ Len(db.history) < MaxHistory
                         /\ db' = [db EXCEPT !.history = Append(@, row)]
                         /\ IF SnapshotCalls(coin)
                            THEN /\ cachedPrices' = g.cache
                                 /\ lastFetchTime' = g.stamp
                            ELSE UNCHANGED shared
                         /\ eng' = Served(u, id, 201)
  /\ UNCHANGED <<now, ledgerRest>>

\* POST /metals/backfill
BackfillMetalComposition ==
  /\ eng.op = "idle"
  /\ MayBegin
  /\ \E u \in Users, real \in FeedsAsked :
       LET g == GetSpotPricesSeq(cachedPrices, lastFetchTime, now, real)
           coins == BackfillCoins(db, u)
           looked == [c \in coins |-> ResolvedAs(c.CoinType, c.Year)]
           saved == {c \in coins : BackfillSaves(c, looked[c])}
       IN  /\ db' = [db EXCEPT
                       !.coins = Backfilled(db, u, looked, g.ret),
                       !.made = Visited(Touched(db, {c.ID : c \in saved}),
                                        {c.ID : c \in coins})]
           /\ IF saved # {}
              THEN cachedPrices' = g.cache /\ lastFetchTime' = g.stamp
              ELSE UNCHANGED shared
           /\ eng' = Served(u, 0, 200)
  /\ UNCHANGED <<now, ledgerRest>>

\* the answer has gone out
Respond ==
  /\ eng.op = "request"
  /\ eng' = EngIdle
  /\ UNCHANGED <<now, shared, db, ledgerRest>>

NextLedger ==
  \/ CreatePortfolio
  \/ DeletePortfolio
  \/ CreateCoin
  \/ UpdateCoin
  \/ DeleteCoin
  \/ RecordPriceSnapshot
  \/ BackfillMetalComposition
  \/ Respond

SpecLedger == InitLedger /\ [][NextLedger]_vars

\* ------------------------------------------------------------ properties
Refreshing == {"l65", "l70", "l42", "l43", "l58", "l59"}
BothFeedsFailed(p) ==
  /\ attempts[p].primary = 1 /\ ~attempts[p].primaryOk
  /\ attempts[p].secondary = 1 /\ ~attempts[p].secondaryOk
SawFresh(p) == ~chk[p].cold /\ chk[p].at - chk[p].lft < cacheDuration
Metals(s) == <<s.Gold, s.Silver, s.Platinum, s.Palladium, s.Copper, s.Nickel>>

\* C1: GetSpotPrices is total: every call that has returned, whatever the
\* cache state it met and whatever the feeds answered, returned a non-nil
\* snapshot and a nil error.
C1_Total ==
  \A p \in Callers :
    pc[p] = "done" => /\ ret[p] # None
                      /\ ret[p].prices # None
                      /\ ret[p].err = NoErr

\* a call returned after both feeds had failed it
C1_Witness ==
  \E p \in Callers : pc[p] = "done" /\ BothFeedsFailed(p) /\ ret[p].prices # None

\* C2: a call whose cache test runs less than 15 minutes after the fetch
\* timestamp returns the cached snapshot and asks no feed; a call that finds
\* no snapshot, or one aged 15 minutes or more, goes to the feed chain.
C2_TTLBoundary ==
  \A p \in Callers :
    pc[p] # "idle" =>
      IF SawFresh(p)
        THEN /\ pc[p] \in {"l36", "done"}
             /\ attempts[p].primary = 0 /\ attempts[p].secondary = 0
             /\ lastFetchTime = chk[p].lft
             /\ pc[p] = "done" => ret[p].prices = cachedPrices
        ELSE /\ pc[p] \in Refreshing \cup {"done"}
             /\ pc[p] # "l65" => attempts[p].primary = 1

\* a call served the cache at an age of 14 minutes
C2_Witness ==
  \E p \in Callers :
    /\ pc[p] = "done" /\ ~chk[p].cold
    /\ chk[p].at - chk[p].lft = cacheDuration - 1
    /\ attempts[p].primary = 0 /\ ret[p].prices = cachedPrices

\* C3: in one refresh each feed is asked at most once, the secondary feed
\* only after the primary failed, the static constants are used only after
\* both failed, and a successful primary's gold and silver are what the call
\* returns.
C3_FallbackChain ==
  \A p \in Callers :
    /\ attempts[p].primary <= 1 /\ attempts[p].secondary <= 1
    /\ attempts[p].secondary = 1 =>
         attempts[p].primary = 1 /\ ~attempts[p].primaryOk
    /\ (pc[p] \in {"l58", "l59"}
        \/ (pc[p] = "done" /\ attempts[p].primary = 1
            /\ ret[p].prices # None /\ ret[p].prices.src = "static"))
         => BothFeedsFailed(p)
    /\ (pc[p] = "done" /\ attempts[p].primaryOk) =>
         /\ ret[p].prices # None
         /\ ret[p].prices.Gold = attempts[p].quote.xauPrice
         /\ ret[p].prices.Silver = attempts[p].quote.xagPrice
         /\ ret[p].prices.src = "primary"

\* a refresh was answered by the secondary feed after the primary had failed
C3_Witness ==
  \E p \in Callers :
    /\ pc[p] = "done" /\ attempts[p].secondary = 1 /\ attempts[p].secondaryOk
    /\ ret[p].prices.src = "secondary"

\* C4: with requests one at a time, a call that found both feeds failing
\* returned the complete static snapshot, which is then the cached one with
\* the fetch timestamp at the clock reading of its return; and a later call
\* goes to the feeds only if its cache test ran 15 minutes or more after that.
C4_FallbackCached ==
  /\ \A p \in Callers :
       (pc[p] = "done" /\ BothFeedsFailed(p)) =>
         /\ ret[p].err = NoErr
         /\ ret[p].prices # None
         /\ Metals(ret[p].prices) =
              <<FallbackGold, FallbackSilver, FallbackPlatinum,
                FallbackPalladium, FallbackCopper, FallbackNickel>>
         /\ cachedPrices = ret[p].prices
         /\ fallbackAt # ZeroTime /\ lastFetchTime = fallbackAt
  /\ \A p \in Callers :
       (fallbackAt # ZeroTime /\ pc[p] \in {"l65", "l70", "l42", "l58"}) =>
         chk[p].at - fallbackAt >= cacheDuration

\* 14 minutes after a static fallback was cached, a call served it from the
\* cache without asking a feed
C4_Witness ==
  \E p \in Callers :
    /\ pc[p] = "done" /\ fallbackAt # ZeroTime
    /\ chk[p].at - fallbackAt = cacheDuration - 1
    /\ attempts[p].primary = 0
    /\ ret[p].prices.src = "static"

\* C5: no snapshot that GetSpotPrices returns from the fetch chain (primary,
\* secondary or static fallback) has a zero in any of its six prices.
C5_NoZeroPrice ==
  \A p \in Callers :
    (pc[p] = "done" /\ ret[p].prices # None
     /\ ret[p].prices.src \in {"primary", "secondary", "static"}) =>
      \A i \in 1..6 : Metals(ret[p].prices)[i] # 0

\* C6: once a feed-derived snapshot has been cached, a refresh that finds both
\* feeds failing returns the previously fetched gold and silver, and the
\* static constants are never returned.
C6_LastKnownGood ==
  \A p \in Callers :
    (pc[p] = "done" /\ lastLive # None /\ ret[p].prices # None) =>
      /\ ret[p].prices.src # "static"
      /\ BothFeedsFailed(p) => /\ ret[p].prices.Gold = lastLive.Gold
                               /\ ret[p].prices.Silver = lastLive.Silver

\* C7: a snapshot decoded from a non-200 response is never the cached one.
C7_Non200IsFailure ==
  (cachedPrices # None /\ cachedPrices.src \in {"primary", "secondary"}) =>
    cachedPrices.http = 200

\* C8: with operations one at a time, for 15 minutes after a manual override
\* the cache holds the four supplied prices with the fetch timestamp at the
\* override, every call that returns in that time returns them without
\* asking a feed, and a call whose cache test runs 15 minutes or more after
\* the override does not serve the overridden cache.
C8_ManualOverride ==
  LET o == lastOverride IN
  (o # None /\ apc = "idle") =>
    /\ now - o.at < cacheDuration =>
         /\ cachedPrices # None
         /\ <<cachedPrices.Gold, cachedPrices.Silver, cachedPrices.Platinum,
              cachedPrices.Palladium>> = o.args
         /\ lastFetchTime = o.at
         /\ \A p \in Callers :
              pc[p] = "done" =>
                /\ <<ret[p].prices.Gold, ret[p].prices.Silver,
                     ret[p].prices.Platinum, ret[p].prices.Palladium>> = o.args
                /\ attempts[p].primary = 0 /\ attempts[p].secondary = 0
    /\ \A p \in Callers :
         (pc[p] # "idle" /\ chk[p].lft = o.at /\ ~chk[p].cold
          /\ chk[p].at - o.at >= cacheDuration) =>
           /\ pc[p] \in Refreshing \cup {"done"}
           /\ pc[p] # "l65" => attempts[p].primary = 1

\* 14 minutes after an override a call returned the overridden prices
C8_Witness ==
  \E p \in Callers :
    /\ lastOverride # None /\ apc = "idle"
    /\ pc[p] = "done" /\ chk[p].at - lastOverride.at = cacheDuration - 1
    /\ ret[p].prices.src = "manual" /\ attempts[p].primary = 0

\* C9: among the calls that are in progress at the same time, at most one
\* has sent a request to a feed.
C9_SingleRefresh ==
  Cardinality({p \in Callers :
                 pc[p] \in Refreshing /\ attempts[p].primary >= 1}) <= 1

\* C10: with no manual override involved, once every call has returned the
\* cached snapshot and the fetch timestamp were written by the same call.
C10_PairFromOneCall ==
  ((\A p \in Callers : pc[p] \in {"idle", "done"})
   /\ overrides = 0 /\ cachedPrices # None) =>
    cacheBy = stampBy

\* C27: when the calls in progress at the same time all refreshed and at
\* least one of them got prices from a feed, then once all have returned the
\* cache holds a feed-derived snapshot, not the static fallback. Two calls
\* overlap when their cache tests read the same fetch timestamp: every
\* return of a refreshing call writes a later one.
C27_LiveNotLost ==
  ((\A p \in Callers : pc[p] = "done" /\ attempts[p].primary >= 1)
   /\ (\A p, q \in Callers : chk[p].lft = chk[q].lft)
   /\ overrides = 0
   /\ (\E p \in Callers : attempts[p].primaryOk \/ attempts[p].secondaryOk))
    => cachedPrices.src \in {"primary", "secondary"}

\* C28: a call that starts after a manual override has completed, less than
\* 15 minutes later, returns the four supplied prices, whatever refresh was
\* in flight at the override.
C28_OverrideKept ==
  \A p \in Callers :
    (pc[p] = "done" /\ chk[p].after
     /\ chk[p].at - lastOverride.at < cacheDuration) =>
      <<ret[p].prices.Gold, ret[p].prices.Silver, ret[p].prices.Platinum,
        ret[p].prices.Palladium>> = lastOverride.args

\* ------------------------------------------------------ lookup properties
\* C11 -- Year-range first-match: for a type with year rules,
\* GetCompositionByYear returns the composition of the first range in
\* declaration order with StartYear <= year <= EndYear, both bounds
\* inclusive, also when a later range contains the year too.
C11_FirstMatch ==
  eng.op = "byYear" =>
    \A i \in DOMAIN RegisteredRules :
      RegisteredRules[i].CoinType = Text(eng.in) =>
        LET ranges == RegisteredRules[i].YearRanges
            Holds(k) == ranges[k].StartYear <= eng.year
                          /\ eng.year <= ranges[k].EndYear
        IN  \A j \in DOMAIN ranges :
              (Holds(j) /\ \A k \in 1..(j - 1) : ~Holds(k)) =>
                 /\ eng.out.found
                 /\ eng.out.comp = ranges[j].Composition

\* 1967 lies in both ranges of the synthetic type and the first one answered.
C11_Witness ==
  /\ eng.op = "byYear"
  /\ Text(eng.in) = SyntheticRule.CoinType
  /\ eng.year = 1967
  /\ eng.out.comp.Name = "Synthetic (1960-1970)"

\* C12 -- Default fallback: for every type with a year-rule entry, also one
\* whose range list is empty, and every year in none of its ranges,
\* GetCompositionByYear returns exactly the type's DefaultComp with
\* found = true; it never reports NotFound and never consults the catalog.
C12_DefaultFallback ==
  eng.op = "byYear" =>
    \A i \in DOMAIN RegisteredRules :
      LET ybc == RegisteredRules[i]
      IN  ( /\ ybc.CoinType = Text(eng.in)
            /\ \A j \in DOMAIN ybc.YearRanges :
                 ~ ( ybc.YearRanges[j].StartYear <= eng.year
                     /\ eng.year <= ybc.YearRanges[j].EndYear ) )
          => eng.out = [comp |-> ybc.DefaultComp, found |-> TRUE,
                        via |-> "default"]

\* Susan B. Anthony Dollar has no ranges and no catalog entry; its default
\* answered.
C12_Witness ==
  /\ eng.op = "byYear"
  /\ Text(eng.in) = <<"S","u","s","a","n"," ","B","."," ","A","n","t","h","o","n","y"," ","D","o","l","l","a","r">>
  /\ ~HasKey(Text(eng.in))
  /\ eng.year = 1977
  /\ eng.out.found
  /\ eng.out.comp.Name = "Susan B. Anthony Dollar"

\* C13 -- Unknown year skips the year rules: for every coin type and every
\* year <= 0 the year-aware resolution returns exactly the result of the
\* catalog lookup GetComposition(type), also for types that have year rules.
C13_UnknownYear ==
  (eng.op = "resolve" /\ eng.year <= 0) =>
     /\ eng.out = GetComposition(Text(eng.in))
     /\ HasKey(Text(eng.in)) =>
          eng.out = [comp |-> CatalogEntry(Text(eng.in)), found |-> TRUE]

\* Washington Quarter with year 0: the catalog's silver entry answered, not
\* the clad DefaultComp of its year rules.
C13_Witness ==
  /\ eng.op = "resolve"
  /\ eng.year = 0
  /\ Text(eng.in) = <<"W","a","s","h","i","n","g","t","o","n"," ","Q","u","a","r","t","e","r">>
  /\ RuleIndex(Text(eng.in)) # 0
  /\ eng.out.comp.MetalType = "silver"
  /\ eng.out.comp # RegisteredRules[RuleIndex(Text(eng.in))].DefaultComp

\* C14 -- Normalization precedes year resolution: for every type T with year
\* rules, every name N that the normalizer maps to T and every year y > 0,
\* resolving (N, y) yields the same composition as resolving (T, y).
C14_NormalizeThenYear ==
  ( /\ eng.op = "resolve"
    /\ eng.year > 0
    /\ RuleIndex(normalizeCoinType(Text(eng.in))) # 0 )
  => eng.out = ResolveComposition(normalizeCoinType(Text(eng.in)), eng.year)

\* C15 -- Catalog lookup algorithm: GetComposition(s) reports found exactly
\* when s is a catalog key or normalize(s) is one; when s itself is a key it
\* returns that key's entry, otherwise the entry of normalize(s); in every
\* other case NotFound, a zero composition with found = false. Matching is
\* exact and case-sensitive.
C15_CatalogLookup ==
  eng.op = "lookup" =>
    LET s == Text(eng.in)
        n == normalizeCoinType(s)
        Entry(k) == {CommonCompositions[i].comp :
                       i \in {j \in DOMAIN CommonCompositions :
                                CommonCompositions[j].key = k}}
    IN  /\ eng.out.found <=> (Entry(s) # {} \/ Entry(n) # {})
        /\ Entry(s) # {} => Entry(s) = {eng.out.comp}
        /\ (Entry(s) = {} /\ Entry(n) # {}) => Entry(n) = {eng.out.comp}
        /\ ~eng.out.found => eng.out.comp = ZeroComposition

\* A grade-suffixed name that is no key itself was found through its
\* normalized form.
C15_Witness ==
  /\ eng.op = "lookup"
  /\ eng.in.prefix = <<"1","9","2","1","-","S"," ">>
  /\ eng.in.suffix = <<" ","M","S","6","7">>
  /\ ~HasKey(Text(eng.in))
  /\ eng.out.found
  /\ eng.out.comp.Name = "Peace Dollar"

\* C16 -- The normalizer recovers the canonical type from year-prefixed
\* input: for every catalog key K, 4-digit year Y, mint-mark letter M and
\* grade token G, normalizing "Y K", "Y-M K" and "Y-M K G" yields exactly K,
\* so GetComposition on each of them returns K's catalog composition.
C16_YearPrefixed ==
  ( /\ eng.op = "lookup"
    /\ HasKey(eng.in.core)
    /\ \/ /\ eng.in.prefix = <<"1","9","2","1"," ">>
          /\ eng.in.suffix = <<>>
       \/ /\ eng.in.prefix = <<"1","9","2","1","-","S"," ">>
          /\ eng.in.suffix \in {<<>>, <<" ","M","S","6","7">>} )
  => /\ normalizeCoinType(Text(eng.in)) = eng.in.core
     /\ eng.out = [comp |-> CatalogEntry(eng.in.core), found |-> TRUE]

\* s ends in whitespace at position k followed by a grade token: lo..hi
\* capitals, one or more digits, then capitals to the end.
TokenAt(s, k, lo, hi) ==
  /\ s[k] \in Space
  /\ \E u \in lo..hi : \E d \in (k + u + 1)..Len(s) :
       /\ \A i \in (k + 1)..(k + u) : s[i] \in Upper
       /\ \A i \in (k + u + 1)..d : s[i] \in Digit
       /\ \A i \in (d + 1)..Len(s) : s[i] \in Upper
\* First position of the whitespace run that ends at k.
WsStart(s, k) ==
  CHOOSE i \in 1..k : /\ \A j \in i..k : s[j] \in Space
                      /\ (i = 1 \/ s[i - 1] \notin Space)

\* C17 (as stated) -- The normalizer strips a trailing grade token whose
\* letter prefix has 2, 3 or 4 capitals followed by digits and optional
\* suffix letters: for every input ending in whitespace plus such a token
\* normalize removes the token, and it returns the input unchanged when
\* neither the leading year pattern nor the trailing grade pattern matches.
C17_Grade2to4 ==
  eng.op = "normalize" =>
    LET s == Text(eng.in)
        y == YearPrefixLen(s)
    IN  /\ \A k \in 1..Len(s) :
             TokenAt(s, k, 2, 4) =>
               eng.out = SubSeq(s, y + 1, WsStart(s, k) - 1)
        /\ (y = 0 /\ \A k \in 1..Len(s) : ~TokenAt(s, k, 2, 4)) =>
             eng.out = s

\* C17 (amended) -- The trailing grade pattern has exactly 2 capitals before
\* the digits: an input ending in whitespace plus such a token loses the
\* whitespace and the token, provided the leading year match stops before
\* that whitespace; a token with 3 or 4 capitals stays in place; and the
\* input comes back unchanged when neither the year pattern nor this grade
\* pattern matches.
C17_Grade2 ==
  eng.op = "normalize" =>
    LET s == Text(eng.in)
        y == YearPrefixLen(s)
    IN  /\ \A k \in 1..Len(s) :
             (TokenAt(s, k, 2, 2) /\ y < k) =>
               eng.out = SubSeq(s, y + 1, WsStart(s, k) - 1)
        /\ \A k \in 1..Len(s) :
             (TokenAt(s, k, 3, 4) /\ y < k) =>
               eng.out = SubSeq(s, y + 1, Len(s))
        /\ (y = 0 /\ \A k \in 1..Len(s) : ~TokenAt(s, k, 2, 2)) =>
             eng.out = s

\* "Morgan Dollar PR70DCAM" lost its grade token.
C17_Witness ==
  /\ eng.op = "normalize"
  /\ eng.in.prefix = <<>>
  /\ eng.in.core = CommonCompositions[1].key
  /\ eng.in.suffix = <<" ","P","R","7","0","D","C","A","M">>
  /\ eng.out = eng.in.core

\* C18 -- Normalization is idempotent: normalize(normalize(s)) = normalize(s)
\* for every input string s, also one with two leading year tokens or two
\* trailing grade tokens.
C18_Idempotent ==
  eng.op = "normalize2" => eng.again = eng.out

\* -------------------------------------------------- calculator properties
\* C19 -- Precious-metal path: for metalType gold, silver, platinum or
\* palladium CalculateMeltValue(metalType, w, p) returns w * (p / 100) * the
\* current snapshot's price of that metal; for "copper" it returns exactly 0
\* with no error, for every weight, purity and price snapshot.
C19_PreciousPath ==
  eng.op = "melt" =>
    LET w == eng.in.Weight
        p == eng.in.Purity
        prices == eng.got.prices
        Is(v) == eng.out = [value |-> Money(v, "ozt"), err |-> NoErr]
    IN  /\ eng.got.err = NoErr
        /\ eng.in.MetalType = "gold" => Is(w * p * prices.Gold)
        /\ eng.in.MetalType = "silver" => Is(w * p * prices.Silver)
        /\ eng.in.MetalType = "platinum" => Is(w * p * prices.Platinum)
        /\ eng.in.MetalType = "palladium" => Is(w * p * prices.Palladium)
        /\ eng.in.MetalType = "copper" =>
             eng.out = [value |-> Money(0, "ozt"), err |-> NoErr]

\* Silver valued at the primary feed's quote.
C19_Witness ==
  /\ eng.op = "melt"
  /\ eng.in = [MetalType |-> "silver", Weight |-> 2, Purity |-> 100]
  /\ eng.got.prices.src = "primary"
  /\ eng.got.prices.Silver = 4800
  /\ eng.out.value = Money(960000, "ozt")

\* C20 -- Base-metal path and dispatch: CalculateMeltValueFromComposition
\* uses the base-metal formula exactly when comp.IsBaseMetal is true,
\* returning (WeightGrams / 453.592) * ((CopperPercent / 100) * copper price
\* per lb + (NickelPercent / 100) * nickel price per lb) whatever MetalType,
\* Weight and Purity are; otherwise it returns the precious-metal result for
\* (MetalType, Weight, Purity) whatever the gram and percent fields are.
C20_BaseDispatch ==
  eng.op = "fromComp" =>
    LET comp == eng.in
        prices == eng.got.prices
    IN  /\ comp.IsBaseMetal =>
             eng.out = [value |->
                          Money(comp.WeightGrams
                                  * (comp.CopperPercent * prices.Copper
                                       + comp.NickelPercent * prices.Nickel),
                                "lb"),
                        err |-> NoErr]
        /\ ~comp.IsBaseMetal =>
             eng.out = CalculateMeltValue(eng.got, comp.MetalType,
                                          comp.Weight, comp.Purity)

\* A base-metal composition that also carries silver content got the
\* base-metal value of 5 g of 75/25 copper-nickel at the static prices.
C20_Witness ==
  /\ eng.op = "fromComp"
  /\ eng.in.IsBaseMetal
  /\ eng.in.MetalType = "silver" /\ eng.in.Weight = 2 /\ eng.in.Purity = 100
  /\ eng.in.WeightGrams = 50
  /\ eng.got.prices = StaticPrices
  /\ eng.out.value = Money(2940000, "lb")

\* C21: a metal type outside gold, silver, platinum, palladium and copper
\* (nickel, zinc, the empty string) has melt value 0 and no error, and the
\* melt-value endpoint never answers such a request with an error status.
Supported == {"gold", "silver", "platinum", "palladium", "copper"}
C21_UnsupportedIsZero ==
  /\ (eng.op = "melt" /\ eng.in.MetalType \notin Supported)
       => eng.out = [value |-> Money(0, "ozt"), err |-> NoErr]
  /\ (eng.op = "endpoint" /\ eng.in.MetalType \notin Supported)
       => eng.status = 200

\* C22: for every composition of the static catalog or the year-rule table
\* and every price snapshot the oracle can return, after any refreshes and
\* manual overrides, CalculateMeltValueFromComposition returns a value that
\* is not negative, and no error.
C22_NonNegative ==
  (eng.op = "fromComp" /\ eng.in \in TableCompositions)
    => ~Negative(eng.out.value) /\ eng.out.err = NoErr

\* the shape the data invariant asks of one composition
WellFormed(c) ==
  /\ c.MetalType \in Supported
  /\ IF c.IsBaseMetal THEN c.Weight = 0 /\ c.Purity = 0
     ELSE c.WeightGrams = 0 /\ c.CopperPercent = 0 /\ c.NickelPercent = 0
  /\ ~(c.Weight > 0 /\ c.WeightGrams > 0)
\* C24: every entry of the static catalog and every range and default
\* composition of the year-rule table has MetalType among gold, silver,
\* platinum, palladium and copper, and is either base-metal-valued
\* (IsBaseMetal with Weight = 0 and Purity = 0) or not (IsBaseMetal false with
\* WeightGrams, CopperPercent and NickelPercent all 0); none sets both a
\* troy-ounce weight and a gram weight.
C24_DataInvariant ==
  /\ \A c \in TableCompositions : WellFormed(c)
  /\ (eng.op = "fromComp" /\ eng.in \in TableCompositions)
       => WellFormed(eng.in)
\* Entries of both kinds were valued: the base-metal Buffalo Nickel of the
\* catalog here, at a nonzero amount.
C24_Witness ==
  /\ eng.op = "fromComp"
  /\ eng.in \in CatalogCompositions
  /\ eng.in.IsBaseMetal /\ eng.in.WeightGrams = 50
  /\ eng.out.value # Money(0, "lb")

\* ------------------------------------------------------ ledger properties
\* the note kept for a stored coin, and the rows still as CreateCoin made
\* them from a body that gave only a type and perhaps a year
MadeOf(c) == db.made[c.ID]
AsCreated == {c \in db.coins : MadeOf(c).typeOnly /\ MadeOf(c).kept}
WashingtonQuarterRule ==
  YearBasedCompositions[CHOOSE i \in DOMAIN YearBasedCompositions :
                          YearBasedCompositions[i].CoinType = WashingtonQuarter]

\* C23: ("Washington Quarter", 1964) resolves to the 90% silver composition
\* with Weight 0.18084, and ("Washington Quarter", y) for every y >= 1965 and
\* every y with 0 < y < 1932 resolves to the clad default, whose melt value
\* is exactly 0 under every price snapshot. Checked on the resolver for the
\* years of the table's boundaries and on every coin CreateCoin stores.
C23_SilverToClad ==
  /\ \A y \in Years \cup LedgerYears :
       LET r == ResolveComposition(WashingtonQuarter, y) IN
         /\ y = 1964 =>
              /\ r.found /\ r.comp.MetalType = "silver"
              /\ r.comp.Weight = 18084 /\ r.comp.Purity = 9000
         /\ (y >= 1965 \/ (0 < y /\ y < 1932)) =>
              r = [comp |-> WashingtonQuarterRule.DefaultComp, found |-> TRUE]
  /\ cachedPrices # None =>
       CalculateMeltValueFromComposition(
         [prices |-> cachedPrices, err |-> NoErr],
         WashingtonQuarterRule.DefaultComp) = [value |-> Zero, err |-> NoErr]
  /\ \A c \in AsCreated :
       c.CoinType = WashingtonQuarter =>
         /\ c.Year = 1964 =>
              /\ c.MetalType = "silver"
              /\ c.MetalWeight = 18084 /\ c.MetalPurity = 9000
              /\ c.CurrentValue = Times(18084 * 9000,
                                        MadeOf(c).got.prices.Silver, "ozt")
         /\ (c.Year >= 1965 \/ (0 < c.Year /\ c.Year < 1932)) =>
              /\ c.MetalType = "copper"
              /\ c.MetalWeight = 0 /\ c.MetalPurity = 0
              /\ c.CurrentValue = Zero
\* A 1965 quarter was stored at value 0 while the cache held the primary
\* feed's quote.
C23_Witness ==
  \E c \in db.coins :
    /\ MadeOf(c).typeOnly /\ MadeOf(c).kept
    /\ c.CoinType = WashingtonQuarter /\ c.Year = 1965
    /\ c.MetalType = "copper" /\ c.CurrentValue = Zero
    /\ MadeOf(c).got.prices.src = "primary"

\* C25: deleting a portfolio also deletes the coins in it: the owner's
\* DeletePortfolio is not refused with a server error because of them, and
\* no stored coin carries the id of a portfolio that has been removed, so
\* every stored coin references an existing portfolio.
C25_NoOrphans ==
  /\ ~(eng.op = "request" /\ eng.out = 500)
  /\ \A c \in db.coins : \E p \in db.portfolios : p.ID = c.PortfolioID

\* C26: the backfill never changes a coin whose three composition fields are
\* all set, nor a coin whose type has no known composition, nor a coin in a
\* portfolio of a user other than the one who asked.
C26_BackfillFrame ==
  db # None =>
    \A u \in Users, real \in FeedsAsked :
      LET g == GetSpotPricesSeq(cachedPrices, lastFetchTime, now, real)
          looked == [c \in BackfillCoins(db, u) |->
                       ResolvedAs(c.CoinType, c.Year)]
          after == Backfilled(db, u, looked, g.ret)
      IN  \A c \in db.coins :
            \/ HasMetal(c.MetalType, c.MetalWeight, c.MetalPurity)
            \/ ~ResolvedAs(c.CoinType, c.Year).found
            \/ ~Owns(db, c.PortfolioID, u)
            => c \in after
\* a coin with all three fields set that a backfill of its owner has passed
\* over, and whose row is still the one CreateCoin stored
C26_Witness ==
  /\ db # None
  /\ \E c \in db.coins :
       /\ HasMetal(c.MetalType, c.MetalWeight, c.MetalPurity)
       /\ c.CurrentValue # Zero
       /\ MadeOf(c).visited
       /\ MadeOf(c).kept

\* C29: for a coin that CreateCoin stored from a coin type and an optional
\* year alone and whose composition was found, base-metal coins included,
\* the MeltValue of a price-history row recorded for it while the price
\* snapshot is the one of its creation equals the CurrentValue stored.
C29_SnapshotIsStoredValue ==
  db # None =>
    \A i \in DOMAIN db.history : \A c \in AsCreated :
      /\ c.ID = db.history[i].CoinID
      /\ MadeOf(c).found
      /\ MadeOf(c).got # None
      /\ MadeOf(c).got.prices = cachedPrices
      => db.history[i].MeltValue = c.CurrentValue

BelongsTo(d, pid, u) == \E p \in d.portfolios : p.ID = pid /\ p.UserID = u
OthersCoin(d, id, u) ==
  \E c \in d.coins : c.ID = id /\ ~BelongsTo(d, c.PortfolioID, u)
Isolated ==
  (db # None /\ eng.op = "idle" /\ eng'.op = "request") =>
    LET u == eng'.in IN
      /\ \A c \in db'.coins \ db.coins : BelongsTo(db', c.PortfolioID, u)
      /\ \A c \in db.coins \ db'.coins : BelongsTo(db, c.PortfolioID, u)
      /\ \A i \in (DOMAIN db'.history) \ (DOMAIN db.history) :
           \E c \in db.coins : /\ c.ID = db'.history[i].CoinID
                               /\ BelongsTo(db, c.PortfolioID, u)
      /\ \A i \in DOMAIN db.history :
           i \in DOMAIN db'.history /\ db'.history[i] = db.history[i]
      /\ OthersCoin(db, eng'.id, u) =>
           /\ eng'.out \in {400, 403, 404}
           /\ db'.coins = db.coins
           /\ db'.history = db.history
\* C30: every request creates, moves, modifies or deletes coins, and records
\* snapshots of coins, only in portfolios of the user who sent it (a moved
\* coin leaves one such portfolio and arrives in another), and a request on
\* a coin whose portfolio is not the requester's is answered 403, 404 or 400
\* and leaves the stored coins and the price history as they were.
C30_Isolation == [][Isolated]_vars
\* a request for a coin that its owner had modified was refused, being sent
\* by another user
C30_Witness ==
  /\ db # None
  /\ eng.op = "request" /\ eng.out = 403
  /\ \E c \in db.coins :
       /\ c.ID = eng.id
       /\ ~MadeOf(c).kept
       /\ \E p \in db.portfolios : p.ID = c.PortfolioID /\ p.UserID # eng.in

====
